---- MODULE Spec2Model ----
(***************************************************************************)
(* Verification model of the OKLabs cryptographic core (package cripta):   *)
(* the padding schemes and the mode-of-operation driver of CipherContext,  *)
(* its block-parallel ECB/CTR workers, and the key-set discipline of the   *)
(* block ciphers behind the ISymmetricCipher interface.                    *)
(*                                                                         *)
(* A byte is a number in 0..255; a []uint8 is a sequence of bytes.  A      *)
(* (value, error) return is a record [err, out]: err = "" means a nil      *)
(* error, out = <<>> with err # "" means a nil result.  err = "panic"      *)
(* is a Go run-time panic.  crypto/rand.Read is a nondeterministic byte    *)
(* stream that never fails.                                                *)
(***************************************************************************)
EXTENDS Integers, Sequences, FiniteSets, TLC

\* ------------------------------------------------------------------------
\* Bounds of the model
\* ------------------------------------------------------------------------

\* half of the context's block size in bytes (blockSize = 2 * HalfSize)
HalfSize == 1

\* largest small block size the padding functions are exercised with
MaxPadBlock == 3

\* longest byte string handed to the padding functions
MaxPadLen == 4

\* largest value of runtime.NumCPU() considered
MaxCPU == 2

\* ------------------------------------------------------------------------
\* Program constants
\* ------------------------------------------------------------------------

CipherModeECB == 0
CipherModeCBC == 1
CipherModePCBC == 2
CipherModeCFB == 3
CipherModeOFB == 4
CipherModeCTR == 5
CipherModeRandomDelta == 6

PaddingModeZeros == 0
PaddingModeANSIX923 == 1
PaddingModePKCS7 == 2
PaddingModeISO10126 == 3

\* number of values of a uint8
ByteMod == 256

\* ------------------------------------------------------------------------
\* Bytes and byte strings
\* ------------------------------------------------------------------------

Byte == 0..(ByteMod - 1)

\* uint8(n) for n >= 0
Uint8(n) == n % ByteMod

RECURSIVE XorBits(_, _, _)
XorBits(a, b, n) ==
    IF n = 0 THEN 0
    ELSE (((a % 2) + (b % 2)) % 2) + 2 * XorBits(a \div 2, b \div 2, n - 1)

\* a ^ b on four-bit values, tabulated
XorNibble ==
    [a \in 1..16 |-> [b \in 1..16 |-> XorBits(a - 1, b - 1, 4)] \o <<>>] \o <<>>

\* a ^ b on uint8
Xor8(a, b) ==
    16 * XorNibble[(a \div 16) + 1][(b \div 16) + 1]
    + XorNibble[(a % 16) + 1][(b % 16) + 1]

Min(a, b) == IF a < b THEN a ELSE b

\* the element of a one-element set: a value computed once and named
Only(S) == CHOOSE x \in S : TRUE

\* s[lo:hi] in Go's 0-based half-open notation
Slice(s, lo, hi) == [i \in 1..(hi - lo) |-> s[lo + i]]

Zeros(n) == [i \in 1..n |-> 0]

\* copy(dst[off:], src): dst after the call
CopyAt(dst, off, src) ==
    [k \in 1..Len(dst) |->
        IF k > off /\ k <= off + Len(src) THEN src[k - off] ELSE dst[k]]

\* make([]uint8, n) followed by copy(., src)
MakeCopy(n, src) == CopyAt(Zeros(n), 0, src)

\* the value returned with a nil error
Ok(out) == [err |-> "", out |-> out]

\* a nil result with an error of the given kind
Fail(kind) == [err |-> kind, out |-> <<>>]

\* the k-th byte (k >= 1) that crypto/rand delivers in a call seeded with s
RandByte(s, k) == (s + k + ByteMod - 1) % ByteMod

RandBytes(s, n) == [k \in 1..n |-> RandByte(s, k)]

\* the seeds the random source is exercised with
RandSeeds == {0, 2, 255}

\* ------------------------------------------------------------------------
\* State
\* ------------------------------------------------------------------------

VARIABLES
    padData,    \* the data handed to applyPadding / removePadding
    padBS,      \* ctx.blockSize of the padding calls
    padPM,      \* ctx.paddingMode of the padding calls
    padPhase,   \* "new", "padded", "removed" or "stripped"
    padOut,     \* what applyPadding returned
    unpadOut,   \* what removePadding returned
    context,    \* the CipherContext: cipher, key, mode, paddingMode, iv,
                \* blockSize, parallel
    lastOp,     \* the last call on the context and what it returned
    parCall,    \* the parallel Encrypt / Decrypt call in progress
    parPC,      \* "idle", "running" or "returned"
    workers,    \* the goroutines of the call: pc, block index i, end, counter
    parOut,     \* the output buffer the workers write into
    errors,     \* the error channel, oldest error first
    parRes,     \* what the parallel function and the call returned
    instance,   \* a block cipher instance (DES, DEAL or Rijndael)
    keyHistory, \* "none", "failed" or "ok": the SetKey calls on the instance
    blockOp,    \* the last call on the instance and what it returned
    libCall,    \* the last call of a library function and what it returned
    rsa,        \* the RSAService: its key pair
    desPool,    \* the DES instances in the pool of a DEALRoundFunction
    desCiphers, \* the DES instances made for the pool: the key each is set to
    applies     \* the DEALRoundFunction.Apply invocations in progress

padVars == <<padData, padBS, padPM, padPhase, padOut, unpadOut>>

ctxVars == <<context, lastOp>>

parVars == <<parCall, parPC, workers, parOut, errors, parRes>>

cphVars == <<instance, keyHistory, blockOp>>

poolVars == <<desPool, desCiphers, applies>>

auxVars == <<libCall, rsa, desPool, desCiphers, applies>>

vars == <<padData, padBS, padPM, padPhase, padOut, unpadOut, context, lastOp,
          parCall, parPC, workers, parOut, errors, parRes, instance, keyHistory,
          blockOp, libCall, rsa, desPool, desCiphers, applies>>

\* ------------------------------------------------------------------------
\* Padding (cipher_context.go)
\* ------------------------------------------------------------------------

\* a padding length that is 0 on block-aligned data (no extra block)
paddingLengthNoExtraBlock(n, bs) == (bs - (n % bs)) % bs

paddingLength(n, bs) ==
    LET p == bs - (n % bs) IN IF p = 0 THEN bs ELSE p

applyPadding(data, bs, pm, seed) ==
    LET dataLength == Len(data)
        p == paddingLength(dataLength, bs)
    IN  IF pm = PaddingModeZeros
          THEN Ok(data \o Zeros(p))
        ELSE IF pm = PaddingModePKCS7
          THEN Ok(data \o [i \in 1..p |-> Uint8(p)])
        ELSE IF pm = PaddingModeANSIX923
          THEN Ok(data \o [i \in 1..p |-> IF i = p THEN Uint8(p) ELSE 0])
        ELSE IF pm = PaddingModeISO10126
          THEN Ok(data \o [i \in 1..p |->
                             IF i = p THEN Uint8(p) ELSE RandByte(seed, i)])
        ELSE Fail("unsupported padding mode")

\* the largest k <= n with data[k] # 0, or 0 when there is none
RECURSIVE lastNonZero(_, _)
lastNonZero(data, n) ==
    IF n = 0 THEN 0
    ELSE IF data[n] # 0 THEN n
    ELSE lastNonZero(data, n - 1)

removePadding(data, bs, pm) ==
    IF Len(data) = 0 THEN Ok(data)
    ELSE
      LET n == Len(data)
          p == data[n]
      IN  IF p <= 0 \/ p > bs \/ p > n THEN Ok(data)
          ELSE IF pm = PaddingModePKCS7
            THEN IF \E i \in (n - p + 1)..n : data[i] # Uint8(p)
                   THEN Ok(data)
                   ELSE Ok(SubSeq(data, 1, n - p))
          ELSE IF pm = PaddingModeANSIX923
            THEN IF \E i \in (n - p + 1)..(n - 1) : data[i] # 0
                   THEN Ok(data)
                   ELSE Ok(SubSeq(data, 1, n - p))
          ELSE IF pm = PaddingModeISO10126
            THEN Ok(SubSeq(data, 1, n - p))
          ELSE IF pm = PaddingModeZeros
            THEN Ok(SubSeq(data, 1, lastNonZero(data, n)))
          ELSE Ok(data)

\* ------------------------------------------------------------------------
\* The padding functions on their own
\* ------------------------------------------------------------------------

\* byte patterns the inputs are built from: position i of n
GenByte(g, i, n) ==
    CASE g = 0 -> 0
      [] g = 1 -> Uint8(i)
      [] g = 2 -> 255
      [] g = 3 -> IF i = n THEN 0 ELSE 7
      [] g = 4 -> IF i = n THEN 2 ELSE 2 * (i % 2)
      [] OTHER -> Uint8(n - i + 1)

Gens == 0..5

GenData(g, n) == [i \in 1..n |-> GenByte(g, i, n)]

PadInputs == {GenData(g, n) : g \in Gens, n \in 0..MaxPadLen}

\* block sizes of the padding calls: the small ones and the largest one a
\* uint8 pad byte can express
PadBlockSizes == (1..MaxPadBlock) \cup {ByteMod - 1}

\* the four padding modes and one value that is none of them
PaddingModes == {PaddingModeZeros, PaddingModeANSIX923, PaddingModePKCS7,
                 PaddingModeISO10126}

UnknownPadding == PaddingModeISO10126 + 1

NoResult == [err |-> "none", out |-> <<>>]

\* the padding variables of a specification that makes no padding calls
PadIdle ==
    /\ padData = <<>>
    /\ padBS = 1
    /\ padPM = PaddingModeZeros
    /\ padPhase = "idle"
    /\ padOut = NoResult
    /\ unpadOut = NoResult

\* the context variables of a specification that has no context
CtxIdle ==
    /\ context = [blockSize |-> 0]
    /\ lastOp = [op |-> "none"]

\* no parallel call is in progress
ParIdle ==
    /\ parCall = [op |-> "none"]
    /\ parPC = "idle"
    /\ workers = <<>>
    /\ parOut = <<>>
    /\ errors = <<>>
    /\ parRes = [raw |-> NoResult, ret |-> NoResult, cause |-> <<>>]

\* there is no separate cipher instance
CphIdle ==
    /\ instance = [kind |-> "none"]
    /\ keyHistory = "none"
    /\ blockOp = [op |-> "none"]

\* no library call, no RSA service, no DEAL round function at work
AuxIdle ==
    /\ libCall = [fn |-> "none"]
    /\ rsa = [generated |-> FALSE]
    /\ desPool = {}
    /\ desCiphers = <<>>
    /\ applies = <<>>

PadInit ==
    /\ CtxIdle
    /\ ParIdle
    /\ AuxIdle
    /\ CphIdle
    /\ padData \in PadInputs
    /\ padBS \in PadBlockSizes
    /\ padPM \in PaddingModes \cup {UnknownPadding}
    /\ padPhase = "new"
    /\ padOut = NoResult
    /\ unpadOut = NoResult

\* padded, err := ctx.applyPadding(data)
PadApply ==
    /\ padPhase = "new"
    /\ \E seed \in RandSeeds : padOut' = applyPadding(padData, padBS, padPM, seed)
    /\ padPhase' = "padded"
    /\ UNCHANGED <<padData, padBS, padPM, unpadOut>>
    /\ UNCHANGED <<ctxVars, parVars, cphVars, auxVars>>

\* ctx.removePadding(padded)
PadRemove ==
    /\ padPhase = "padded"
    /\ padOut.err = ""
    /\ unpadOut' = removePadding(padOut.out, padBS, padPM)
    /\ padPhase' = "removed"
    /\ UNCHANGED <<padData, padBS, padPM, padOut>>
    /\ UNCHANGED <<ctxVars, parVars, cphVars, auxVars>>

\* ctx.removePadding(data) on data that applyPadding did not produce
PadStrip ==
    /\ padPhase = "new"
    /\ unpadOut' = removePadding(padData, padBS, padPM)
    /\ padPhase' = "stripped"
    /\ UNCHANGED <<padData, padBS, padPM, padOut>>
    /\ UNCHANGED <<ctxVars, parVars, cphVars, auxVars>>

PadNext == PadApply \/ PadRemove \/ PadStrip

SpecPad == PadInit /\ [][PadNext]_vars

\* ------------------------------------------------------------------------
\* Feistel driver (feistel_network.go)
\* ------------------------------------------------------------------------

\* The interface fields keySchedule and roundFunction of a driver hold, while
\* it is stored, the name of the implementation.  A cipher calls its driver
\* bound to the implementation itself: an object whose method
\* (GenerateRoundKeys, Apply) is a function of the method's arguments.
Bound(fn, ks, rf) == [fn EXCEPT !.keySchedule = ks, !.roundFunction = rf]

\* the driver fn as it is stored in place of the driver stored
Unbound(fn, stored) ==
    [fn EXCEPT !.keySchedule = stored.keySchedule,
               !.roundFunction = stored.roundFunction]

NewFeistelNetwork(ks, rf, blockSize, roundsCount) ==
    IF blockSize % 2 # 0
      THEN Fail("block size must be even")
      ELSE Ok([keySchedule |-> ks,
               roundFunction |-> rf,
               blockSize |-> IF blockSize = 0 THEN 8 ELSE blockSize,
               roundsCount |-> IF roundsCount = 0 THEN 16 ELSE roundsCount,
               currentKey |-> <<>>,
               roundKeys |-> <<>>])

splitBlock(block) ==
    IF Len(block) = 0 THEN Fail("block cannot be empty")
    ELSE IF Len(block) % 2 # 0 THEN Fail("block size must be even")
    ELSE LET halfSize == Len(block) \div 2
         IN  Ok(<<SubSeq(block, 1, halfSize),
                  SubSeq(block, halfSize + 1, Len(block))>>)

\* the halves joined the other way round
combineBlocksSwapped(left, right) == Ok(right \o left)

combineBlocks(left, right) == Ok(left \o right)

FeistelXorBlocks(left, right) ==
    LET minSize == Min(Len(left), Len(right))
    IN  IF minSize = 0 THEN Fail("blocks cannot be empty")
        ELSE Ok([i \in 1..minSize |-> Xor8(left[i], right[i])])

\* fn.SetKey(key): the error and the driver after the call
\* SetKey from the return rk of the key schedule on: fn1 is the driver with
\* currentKey set
FeistelRoundKeysSet(fn1, rk) ==
    IF rk.err # ""
      THEN [err |-> "failed to generate round keys", fn |-> fn1]
    ELSE
      LET fn2 == [fn1 EXCEPT !.roundKeys = rk.out]
      IN  IF Len(fn2.roundKeys) < fn2.roundsCount
            THEN [err |-> "insufficient round keys", fn |-> fn2]
            ELSE [err |-> "", fn |-> fn2]

\* fn.SetKey(key): the error and the driver after the call
FeistelSetKey(fn, key) ==
    IF Len(key) = 0 THEN [err |-> "key cannot be empty", fn |-> fn]
    ELSE FeistelRoundKeysSet([fn EXCEPT !.currentKey = key],
                             fn.keySchedule.GenerateRoundKeys[key])

\* the rounds round, round+1, .. roundsCount-1 of EncryptBlock
RECURSIVE EncryptRounds(_, _, _, _)
EncryptRounds(fn, left, right, round) ==
    IF round >= fn.roundsCount THEN combineBlocks(left, right)
    ELSE IF round + 1 > Len(fn.roundKeys) THEN Fail("panic")
    ELSE
      Only({IF functionOutput.err # "" THEN Fail("round function error")
            ELSE Only({IF newRight.err # "" THEN Fail("xor operation failed")
                       ELSE EncryptRounds(fn, right, newRight.out, round + 1) :
                       newRight \in {FeistelXorBlocks(left, functionOutput.out)}}) :
            functionOutput \in {fn.roundFunction.Apply[right, fn.roundKeys[round + 1]]}})

FeistelEncryptBlockUnchecked(fn, plainBlock) ==
    IF Len(plainBlock) # fn.blockSize THEN Fail("plain block size")
    ELSE
      LET halves == splitBlock(plainBlock)
      IN  IF halves.err # "" THEN Fail("failed to split block")
          ELSE EncryptRounds(fn, halves.out[1], halves.out[2], 0)

FeistelEncryptBlock(fn, plainBlock) ==
    IF Len(plainBlock) # fn.blockSize THEN Fail("plain block size")
    ELSE IF Len(fn.roundKeys) = 0 THEN Fail("key not set")
    ELSE
      LET halves == splitBlock(plainBlock)
      IN  IF halves.err # "" THEN Fail("failed to split block")
          ELSE EncryptRounds(fn, halves.out[1], halves.out[2], 0)

\* the rounds round, round-1, .. 0 of DecryptBlock
RECURSIVE DecryptRounds(_, _, _, _)
DecryptRounds(fn, left, right, round) ==
    IF round < 0 THEN combineBlocks(left, right)
    ELSE IF round + 1 > Len(fn.roundKeys) THEN Fail("panic")
    ELSE
      Only({IF functionOutput.err # "" THEN Fail("round function error")
            ELSE Only({IF newLeft.err # "" THEN Fail("xor operation failed")
                       ELSE DecryptRounds(fn, newLeft.out, left, round - 1) :
                       newLeft \in {FeistelXorBlocks(right, functionOutput.out)}}) :
            functionOutput \in {fn.roundFunction.Apply[left, fn.roundKeys[round + 1]]}})

\* DecryptBlock with its loop begun one round late
FeistelDecryptBlockLate(fn, cipherBlock) ==
    IF Len(cipherBlock) # fn.blockSize THEN Fail("cipher block size")
    ELSE IF Len(fn.roundKeys) = 0 THEN Fail("key not set")
    ELSE
      LET halves == splitBlock(cipherBlock)
      IN  IF halves.err # "" THEN Fail("failed to split block")
          ELSE DecryptRounds(fn, halves.out[1], halves.out[2], fn.roundsCount - 2)

FeistelDecryptBlock(fn, cipherBlock) ==
    IF Len(cipherBlock) # fn.blockSize THEN Fail("cipher block size")
    ELSE IF Len(fn.roundKeys) = 0 THEN Fail("key not set")
    ELSE
      LET halves == splitBlock(cipherBlock)
      IN  IF halves.err # "" THEN Fail("failed to split block")
          ELSE DecryptRounds(fn, halves.out[1], halves.out[2], fn.roundsCount - 1)

\* ------------------------------------------------------------------------
\* Bit permutations (permute.go)
\* ------------------------------------------------------------------------

\* (value[byte] >> bit) & 1 with byte counted from 0
BitAt(value, byte, bit) == (value[byte + 1] \div (2 ^ bit)) % 2

\* PermuteBits(value, rule, indexFromLSB, startBitNum)
PermuteBits(value, rule, indexFromLSB, startBitNum) ==
    LET outputBits == Len(rule)
        outputBytes == (outputBits + 7) \div 8
        sourcePos(i) == rule[i + 1] - startBitNum
        inBounds(i) == sourcePos(i) >= 0 /\ sourcePos(i) < Len(value) * 8
        sourceBit(i) == IF indexFromLSB THEN sourcePos(i) % 8
                        ELSE 7 - (sourcePos(i) % 8)
        destBit(i) == IF indexFromLSB THEN i % 8 ELSE 7 - (i % 8)
        \* what output bit i contributes to its byte of the result
        part(i) == IF i >= outputBits THEN 0
                   ELSE BitAt(value, sourcePos(i) \div 8, sourceBit(i))
                          * (2 ^ destBit(i))
    IN  IF \E i \in 0..(outputBits - 1) : ~inBounds(i)
          THEN Fail("position out of bounds")
          ELSE Ok([d \in 1..outputBytes |->
                     LET b == 8 * (d - 1)
                     IN  part(b) + part(b + 1) + part(b + 2) + part(b + 3)
                           + part(b + 4) + part(b + 5) + part(b + 6)
                           + part(b + 7)])

\* the key schedule's bit loops: bit to+i of size zero bytes is set to bit
\* from+i of src for i = 0 .. n-1, bit 0 being the top bit of the first byte
CopyBits(src, from, n, size, to) ==
    LET bit(k) == IF k < to \/ k >= to + n THEN 0
                  ELSE BitAt(src, (from + k - to) \div 8, 7 - ((from + k - to) % 8))
                         * (2 ^ (7 - (k % 8)))
    IN  [d \in 1..size |->
           LET b == 8 * (d - 1)
           IN  bit(b) + bit(b + 1) + bit(b + 2) + bit(b + 3)
                 + bit(b + 4) + bit(b + 5) + bit(b + 6) + bit(b + 7)]

\* ------------------------------------------------------------------------
\* DES (des_key_schedule.go, the DES cipher)
\* ------------------------------------------------------------------------

PC1 == <<57, 49, 41, 33, 25, 17, 9,
         1, 58, 50, 42, 34, 26, 18,
         10, 2, 59, 51, 43, 35, 27,
         19, 11, 3, 60, 52, 44, 36,
         63, 55, 47, 39, 31, 23, 15,
         7, 62, 54, 46, 38, 30, 22,
         14, 6, 61, 53, 45, 37, 29,
         21, 13, 5, 28, 20, 12, 4>>

PC2 == <<14, 17, 11, 24, 1, 5,
         3, 28, 15, 6, 21, 10,
         23, 19, 12, 4, 26, 8,
         16, 7, 27, 20, 13, 2,
         41, 52, 31, 37, 47, 55,
         30, 40, 51, 45, 33, 48,
         44, 49, 39, 56, 34, 53,
         46, 42, 50, 36, 29, 32>>

SHIFT_SCHEDULE == <<1, 1, 2, 2, 2, 2, 2, 2, 1, 2, 2, 2, 2, 2, 2, 1>>

\* leftShift28(data, shifts): the four bytes as a uint32, masked to 28 bits,
\* rotated left within 28 bits, as four bytes again
leftShift28(data, shifts) ==
    IF Len(data) # 4 THEN Fail("data must be 4 bytes")
    ELSE
      LET mask28 == 2 ^ 28
          \* & 0x0FFFFFFF drops the high four bits of data[0]
          value == (data[1] % 16) * (2 ^ 24) + data[2] * (2 ^ 16)
                   + data[3] * (2 ^ 8) + data[4]
          \* the two operands of | share no bit
          rotated == ((value * (2 ^ shifts)) % mask28)
                     + (value \div (2 ^ (28 - shifts)))
      IN  Ok(<<(rotated \div (2 ^ 24)) % ByteMod, (rotated \div (2 ^ 16)) % ByteMod,
               (rotated \div (2 ^ 8)) % ByteMod, rotated % ByteMod>>)

\* the rounds round .. 15 of the key schedule's loop, from the halves C, D
RECURSIVE DESRoundKeysFrom(_, _, _)
DESRoundKeysFrom(C, D, round) ==
    IF round >= 16 THEN <<>>
    ELSE
      LET C1 == leftShift28(C, SHIFT_SCHEDULE[round + 1]).out
          D1 == leftShift28(D, SHIFT_SCHEDULE[round + 1]).out
          lo == CopyBits(C1, 0, 28, 7, 0)
          hi == CopyBits(D1, 0, 28, 7, 28)
          \* the two loops set different bits of CD
          CD == [k \in 1..7 |-> lo[k] + hi[k]]
          roundKey == PermuteBits(CD, PC2, FALSE, 1).out
      IN  <<roundKey>> \o DESRoundKeysFrom(C1, D1, round + 1)

\* DESKeySchedule.GenerateRoundKeys(masterKey)
DESGenerateRoundKeys(masterKey) ==
    IF Len(masterKey) # 8 THEN Fail("DES key must be 8 bytes")
    ELSE
      LET permutedKey == PermuteBits(masterKey, PC1, FALSE, 1).out
          C == CopyBits(permutedKey, 0, 28, 4, 0)
          D == CopyBits(permutedKey, 28, 28, 4, 0)
      IN  Ok(DESRoundKeysFrom(C, D, 0))

\* The DES round function is not among the sources; it is modelled from
\* the specification: expansion E, XOR with the 48-bit round key, the
\* S-boxes S1..S8 (row = outer two bits, column = inner four bits) and the
\* permutation P of FIPS 46-3.
ExpansionE == <<32, 1, 2, 3, 4, 5, 4, 5, 6, 7, 8, 9,
                8, 9, 10, 11, 12, 13, 12, 13, 14, 15, 16, 17,
                16, 17, 18, 19, 20, 21, 20, 21, 22, 23, 24, 25,
                24, 25, 26, 27, 28, 29, 28, 29, 30, 31, 32, 1>>

PermutationP == <<16, 7, 20, 21, 29, 12, 28, 17, 1, 15, 23, 26, 5, 18, 31, 10,
                  2, 8, 24, 14, 32, 27, 3, 9, 19, 13, 30, 6, 22, 11, 4, 25>>

SBoxes == <<
    <<14, 4, 13, 1, 2, 15, 11, 8, 3, 10, 6, 12, 5, 9, 0, 7,
      0, 15, 7, 4, 14, 2, 13, 1, 10, 6, 12, 11, 9, 5, 3, 8,
      4, 1, 14, 8, 13, 6, 2, 11, 15, 12, 9, 7, 3, 10, 5, 0,
      15, 12, 8, 2, 4, 9, 1, 7, 5, 11, 3, 14, 10, 0, 6, 13>>,
    <<15, 1, 8, 14, 6, 11, 3, 4, 9, 7, 2, 13, 12, 0, 5, 10,
      3, 13, 4, 7, 15, 2, 8, 14, 12, 0, 1, 10, 6, 9, 11, 5,
      0, 14, 7, 11, 10, 4, 13, 1, 5, 8, 12, 6, 9, 3, 2, 15,
      13, 8, 10, 1, 3, 15, 4, 2, 11, 6, 7, 12, 0, 5, 14, 9>>,
    <<10, 0, 9, 14, 6, 3, 15, 5, 1, 13, 12, 7, 11, 4, 2, 8,
      13, 7, 0, 9, 3, 4, 6, 10, 2, 8, 5, 14, 12, 11, 15, 1,
      13, 6, 4, 9, 8, 15, 3, 0, 11, 1, 2, 12, 5, 10, 14, 7,
      1, 10, 13, 0, 6, 9, 8, 7, 4, 15, 14, 3, 11, 5, 2, 12>>,
    <<7, 13, 14, 3, 0, 6, 9, 10, 1, 2, 8, 5, 11, 12, 4, 15,
      13, 8, 11, 5, 6, 15, 0, 3, 4, 7, 2, 12, 1, 10, 14, 9,
      10, 6, 9, 0, 12, 11, 7, 13, 15, 1, 3, 14, 5, 2, 8, 4,
      3, 15, 0, 6, 10, 1, 13, 8, 9, 4, 5, 11, 12, 7, 2, 14>>,
    <<2, 12, 4, 1, 7, 10, 11, 6, 8, 5, 3, 15, 13, 0, 14, 9,
      14, 11, 2, 12, 4, 7, 13, 1, 5, 0, 15, 10, 3, 9, 8, 6,
      4, 2, 1, 11, 10, 13, 7, 8, 15, 9, 12, 5, 6, 3, 0, 14,
      11, 8, 12, 7, 1, 14, 2, 13, 6, 15, 0, 9, 10, 4, 5, 3>>,
    <<12, 1, 10, 15, 9, 2, 6, 8, 0, 13, 3, 4, 14, 7, 5, 11,
      10, 15, 4, 2, 7, 12, 9, 5, 6, 1, 13, 14, 0, 11, 3, 8,
      9, 14, 15, 5, 2, 8, 12, 3, 7, 0, 4, 10, 1, 13, 11, 6,
      4, 3, 2, 12, 9, 5, 15, 10, 11, 14, 1, 7, 6, 0, 8, 13>>,
    <<4, 11, 2, 14, 15, 0, 8, 13, 3, 12, 9, 7, 5, 10, 6, 1,
      13, 0, 11, 7, 4, 9, 1, 10, 14, 3, 5, 12, 2, 15, 8, 6,
      1, 4, 11, 13, 12, 3, 7, 14, 10, 15, 6, 8, 0, 5, 9, 2,
      6, 11, 13, 8, 1, 4, 10, 7, 9, 5, 0, 15, 14, 2, 3, 12>>,
    <<13, 2, 8, 4, 6, 15, 11, 1, 10, 9, 3, 14, 5, 0, 12, 7,
      1, 15, 13, 8, 10, 3, 7, 4, 12, 5, 6, 11, 0, 14, 9, 2,
      7, 11, 4, 1, 9, 12, 14, 2, 0, 6, 10, 13, 15, 3, 5, 8,
      2, 1, 14, 7, 4, 10, 8, 13, 15, 12, 9, 0, 3, 5, 6, 11>> >>

\* the four output bits of S-box s (1..8) for the s-th six-bit group of x
SBoxOut(x, s) ==
    LET bit(k) == BitAt(x, (6 * (s - 1) + k) \div 8, 7 - ((6 * (s - 1) + k) % 8))
        row == 2 * bit(0) + bit(5)
        col == 8 * bit(1) + 4 * bit(2) + 2 * bit(3) + bit(4)
    IN  SBoxes[s][16 * row + col + 1]

\* DESRoundFunction.Apply(inputBlock, roundKey): F(R, K)
DESApply(inputBlock, roundKey) ==
    IF Len(inputBlock) # 4 \/ Len(roundKey) # 6
      THEN Fail("round function input")
      ELSE
        LET expanded == PermuteBits(inputBlock, ExpansionE, FALSE, 1).out
            x == [k \in 1..6 |-> Xor8(expanded[k], roundKey[k])]
            substituted == [k \in 1..4 |->
                              16 * SBoxOut(x, 2 * k - 1) + SBoxOut(x, 2 * k)]
        IN  PermuteBits(substituted, PermutationP, FALSE, 1)

IP == <<58, 50, 42, 34, 26, 18, 10, 2,
        60, 52, 44, 36, 28, 20, 12, 4,
        62, 54, 46, 38, 30, 22, 14, 6,
        64, 56, 48, 40, 32, 24, 16, 8,
        57, 49, 41, 33, 25, 17, 9, 1,
        59, 51, 43, 35, 27, 19, 11, 3,
        61, 53, 45, 37, 29, 21, 13, 5,
        63, 55, 47, 39, 31, 23, 15, 7>>

FP == <<40, 8, 48, 16, 56, 24, 64, 32,
        39, 7, 47, 15, 55, 23, 63, 31,
        38, 6, 46, 14, 54, 22, 62, 30,
        37, 5, 45, 13, 53, 21, 61, 29,
        36, 4, 44, 12, 52, 20, 60, 28,
        35, 3, 43, 11, 51, 19, 59, 27,
        34, 2, 42, 10, 50, 18, 58, 26,
        33, 1, 41, 9, 49, 17, 57, 25>>

\* the DESKeySchedule and the DESRoundFunction a DES cipher is built with
DESKeySchedule ==
    [GenerateRoundKeys |->
        [masterKey \in Seq(Byte) |-> DESGenerateRoundKeys(masterKey)]]

DESRoundFunction ==
    [Apply |-> [inputBlock \in Seq(Byte), roundKey \in Seq(Byte) |->
                  DESApply(inputBlock, roundKey)]]

NewDESCipher ==
    [kind |-> "DES",
     feistel |-> NewFeistelNetwork("DESKeySchedule", "DESRoundFunction", 8, 16).out,
     currentKey |-> <<>>]

\* des.feistel at work
DESFeistel(des) == Bound(des.feistel, DESKeySchedule, DESRoundFunction)

\* a cipher's SetKey from the return r of its driver's SetKey on: currentKey
\* is set before the driver is called, the driver keeps what SetKey left
DriverKeySet(c, key, r) ==
    [err |-> IF r.err # "" THEN "failed to set key in feistel network" ELSE "",
     c |-> [c EXCEPT !.currentKey = key, !.feistel = Unbound(r.fn, c.feistel)]]

\* des.SetKey(key): the error and the cipher after the call
DESSetKey(des, key) ==
    IF Len(key) # 8 THEN [err |-> "DES key must be 8 bytes", c |-> des]
    ELSE DriverKeySet(des, key, FeistelSetKey(DESFeistel(des), key))

\* what the wrappers return for what the driver returned
Wrapped(r, kind) ==
    IF r.err = "" \/ r.err = "panic" THEN r ELSE Fail(kind)

\* EncryptBlock and DecryptBlock from the return of the driver on
DESFinalPermutation(feistelOutput, kind) ==
    IF feistelOutput.err # "" THEN Wrapped(feistelOutput, kind)
    ELSE Wrapped(PermuteBits(feistelOutput.out, FP, FALSE, 1),
                 "FP permutation failed")

DESEncryptBlock(des, plainBlock) ==
    IF Len(plainBlock) # 8 THEN Fail("DES block must be 8 bytes")
    ELSE
      LET permuted == PermuteBits(plainBlock, IP, FALSE, 1)
      IN  IF permuted.err # "" THEN Fail("IP permutation failed")
          ELSE DESFinalPermutation(
                 FeistelEncryptBlock(DESFeistel(des), permuted.out),
                 "feistel encryption failed")

DESDecryptBlock(des, cipherBlock) ==
    IF Len(cipherBlock) # 8 THEN Fail("DES block must be 8 bytes")
    ELSE
      LET permuted == PermuteBits(cipherBlock, IP, FALSE, 1)
      IN  IF permuted.err # "" THEN Fail("IP permutation failed")
          ELSE DESFinalPermutation(
                 FeistelDecryptBlock(DESFeistel(des), permuted.out),
                 "feistel decryption failed")

\* a DES cipher is keyed (keyed is the return of its SetKey) and encrypts
\* block, as the DEAL key schedule and round function use DES
DESEncryptKeyed(keyed, block, kind) ==
    IF keyed.err # "" THEN Fail(kind) ELSE DESEncryptBlock(keyed.c, block)

\* ------------------------------------------------------------------------
\* DEAL (the DEAL key schedule, deal_round_function.go, the DEAL cipher)
\* ------------------------------------------------------------------------

FIXED_KEY == <<1, 35, 69, 103, 137, 171, 205, 239>>

NewDEALKeySchedule(keyLength) ==
    [keyLength |-> keyLength, numRounds |-> IF keyLength = 32 THEN 8 ELSE 6]

\* the rounds round .. numRounds-1 of the key schedule's loop
\* the round keys from encryptedKey, the return of the DES encryption of
\* one round, and rest, those of the rounds after it
DEALRoundKeysWith(encryptedKey, rest) ==
    IF encryptedKey.err # "" THEN Fail("DES encryption failed")
    ELSE IF rest.err # "" THEN rest
    ELSE Ok(<<encryptedKey.out>> \o rest.out)

RECURSIVE DEALRoundKeysFrom(_, _, _)
DEALRoundKeysFrom(dks, keyBlocks, round) ==
    IF round >= dks.numRounds THEN Ok(<<>>)
    ELSE
      LET blockIdx == round % Len(keyBlocks)
          roundKey == [i \in 1..8 |-> Xor8(keyBlocks[blockIdx + 1][i], Uint8(round + 1))]
      IN  DEALRoundKeysWith(
            DESEncryptKeyed(DESSetKey(NewDESCipher, FIXED_KEY), roundKey,
                            "failed to set fixed DES key"),
            DEALRoundKeysFrom(dks, keyBlocks, round + 1))

\* DEALKeySchedule.GenerateRoundKeys(masterKey)
DEALGenerateRoundKeys(dks, masterKey) ==
    IF Len(masterKey) # dks.keyLength THEN Fail("master key size")
    ELSE
      LET keyBlocks == [b \in 1..((Len(masterKey) + 7) \div 8) |->
                          MakeCopy(8, Slice(masterKey, 8 * (b - 1),
                                            Min(8 * b, Len(masterKey))))]
      IN  DEALRoundKeysFrom(dks, keyBlocks, 0)

\* Apply from the return of the DES encryption on
DEALOutput(output) ==
    IF output.err # "" THEN Wrapped(output, "DES encryption failed")
    ELSE IF Len(output.out) # 8 THEN Fail("DES output size is incorrect")
    ELSE output

\* DEALRoundFunction.Apply(inputBlock, roundKey): a DES cipher is taken
\* from the pool, keyed with the round key, and encrypts the half block
DEALApply(inputBlock, roundKey) ==
    IF Len(inputBlock) # 8 THEN Fail("DEAL round function input must be 8 bytes")
    ELSE IF Len(roundKey) # 8 THEN Fail("DEAL round key must be 8 bytes")
    ELSE DEALOutput(DESEncryptKeyed(DESSetKey(NewDESCipher, roundKey), inputBlock,
                                    "failed to set round key"))

\* the DEALKeySchedule dks and the DEALRoundFunction at work
DEALKeySchedule(dks) ==
    [GenerateRoundKeys |->
        [masterKey \in Seq(Byte) |-> DEALGenerateRoundKeys(dks, masterKey)]]

DEALRoundFunction ==
    [Apply |-> [inputBlock \in Seq(Byte), roundKey \in Seq(Byte) |->
                  DEALApply(inputBlock, roundKey)]]

NewDEALCipher(keyLength) ==
    IF keyLength \notin {16, 24, 32} THEN Fail("DEAL key length")
    ELSE
      LET dks == NewDEALKeySchedule(keyLength)
      IN  Ok([kind |-> "DEAL",
              feistel |-> NewFeistelNetwork(dks, "DEALRoundFunction", 16,
                                            dks.numRounds).out,
              currentKey |-> <<>>,
              keyLength |-> keyLength])

\* deal.feistel at work
DEALFeistel(deal) ==
    Bound(deal.feistel, DEALKeySchedule(deal.feistel.keySchedule), DEALRoundFunction)

\* deal.SetKey(key): the error and the cipher after the call
DEALSetKey(deal, key) ==
    IF Len(key) # deal.keyLength THEN [err |-> "key size", c |-> deal]
    ELSE DriverKeySet(deal, key, FeistelSetKey(DEALFeistel(deal), key))

DEALEncryptBlock(deal, plainBlock) ==
    IF Len(plainBlock) # 16 THEN Fail("DEAL block must be 16 bytes")
    ELSE Wrapped(FeistelEncryptBlock(DEALFeistel(deal), plainBlock),
                 "feistel encryption failed")

DEALDecryptBlock(deal, cipherBlock) ==
    IF Len(cipherBlock) # 16 THEN Fail("DEAL block must be 16 bytes")
    ELSE Wrapped(FeistelDecryptBlock(DEALFeistel(deal), cipherBlock),
                 "feistel decryption failed")

\* ------------------------------------------------------------------------
\* The block cipher of the cipher contexts
\* ------------------------------------------------------------------------

\* The contexts below encrypt with a Feistel cipher of BlockSize bytes
\* assembled, as DEALCipher is, from the generic driver, a key schedule and
\* a round function, and wrapped as DEALCipher wraps its driver.
BlockSize == 2 * HalfSize

\* rounds of that cipher
MiniRounds == 2

\* IKeySchedule.GenerateRoundKeys of the context cipher: MiniRounds round
\* keys of HalfSize bytes; a key of another length than BlockSize is rejected
MiniGenerateRoundKeys(masterKey) ==
    IF Len(masterKey) # BlockSize
      THEN Fail("key size")
      ELSE Ok([r \in 1..MiniRounds |->
                 [j \in 1..HalfSize |->
                    Uint8(masterKey[((r + j) % BlockSize) + 1] + 17 * r + j)]])

\* IRoundFunction.Apply of the context cipher: a keyed, non-invertible
\* function of the half block
MiniApply(inputBlock, roundKey) ==
    IF Len(inputBlock) # HalfSize \/ Len(roundKey) # HalfSize
      THEN Fail("round function input")
      ELSE Ok([j \in 1..HalfSize |->
                 Uint8(inputBlock[j] * inputBlock[j]
                       + 3 * inputBlock[(j % HalfSize) + 1]
                       + roundKey[j])])

MiniKeySchedule ==
    [GenerateRoundKeys |->
        [masterKey \in Seq(Byte) |-> MiniGenerateRoundKeys(masterKey)]]

MiniRoundFunction ==
    [Apply |-> [inputBlock \in Seq(Byte), roundKey \in Seq(Byte) |->
                  MiniApply(inputBlock, roundKey)]]

NewMiniCipher ==
    [kind |-> "Mini",
     feistel |-> NewFeistelNetwork("MiniKeySchedule", "MiniRoundFunction",
                                   BlockSize, MiniRounds).out,
     currentKey |-> <<>>,
     keyLength |-> BlockSize,
     rejects |-> {}]

MiniFeistel(c) == Bound(c.feistel, MiniKeySchedule, MiniRoundFunction)

\* the three methods, as DEALCipher has them
MiniSetKey(c, key) ==
    IF Len(key) # c.keyLength THEN [err |-> "key size", c |-> c]
    ELSE DriverKeySet(c, key, FeistelSetKey(MiniFeistel(c), key))

MiniEncryptBlock(c, plainBlock) ==
    IF Len(plainBlock) # BlockSize THEN Fail("block size")
    ELSE Wrapped(FeistelEncryptBlock(MiniFeistel(c), plainBlock),
                 "feistel encryption failed")

MiniDecryptBlock(c, cipherBlock) ==
    IF Len(cipherBlock) # BlockSize THEN Fail("block size")
    ELSE Wrapped(FeistelDecryptBlock(MiniFeistel(c), cipherBlock),
                 "feistel decryption failed")

\* a double of the cipher whose block primitive returns an error for the
\* blocks ending in one of the bytes of rejects
NewFaultyCipher(rejects) == [NewMiniCipher EXCEPT !.rejects = rejects]

rejected(c, block) ==
    Len(block) > 0 /\ block[Len(block)] \in c.rejects

\* ------------------------------------------------------------------------
\* GF(2^8) (gf28_service.go)
\* ------------------------------------------------------------------------

\* the turns i .. 7 of the shift-and-add loop of Multiply and MultiplySimple
RECURSIVE MultiplyLoop(_, _, _, _, _)
MultiplyLoop(a, b, modulus, result, i) ==
    IF i >= 8 THEN result
    ELSE
      LET result1 == IF b % 2 # 0 THEN Xor8(result, a) ELSE result
          carry == a >= 128
          shifted == Uint8(2 * a)
          a1 == IF carry THEN Xor8(shifted, modulus) ELSE shifted
      IN  MultiplyLoop(a1, b \div 2, modulus, result1, i + 1)

\* Multiply(a, b, modulus): the product; the error is always nil
Multiply(a, b, modulus) == MultiplyLoop(a, b, modulus, 0, 0)

\* Inverse(a, modulus): the first i of 1 .. 255 with a * i = 1; out is a byte
\* here
Inverse(a, modulus) ==
    IF a = 0 THEN Fail("zero element has no inverse")
    ELSE
      LET found == {i \in 1..(ByteMod - 1) : Multiply(a, i, modulus) = 1}
      IN  IF found = {} THEN Fail("inverse not found")
          ELSE Ok(CHOOSE i \in found : \A k \in found : i <= k)

\* MultiplySimple(a, b): the same loop with the AES modulus 0x1B
MultiplySimple(a, b) == MultiplyLoop(a, b, 27, 0, 0)

\* ------------------------------------------------------------------------
\* Rijndael (the Rijndael cipher, aes_round_function.go)
\* ------------------------------------------------------------------------

\* the turns i .. 7 of affineTransform's loop: the bits they set in result
RECURSIVE affineFrom(_, _)
affineFrom(b, i) ==
    IF i >= 8 THEN 0
    ELSE
      LET bit == (b + (b \div 16) + (b \div 32) + (b \div 64) + (b \div 128)
                  + (99 \div (2 ^ i))) % 2
      IN  bit * (2 ^ i) + affineFrom((b \div 2) + 128 * (b % 2), i + 1)

\* the constant added to the byte itself, the bits of b left unmixed
affineTransformUnmixed(b) == Xor8(b, 99)

affineTransform(b) == affineFrom(b, 0)

\* initSBoxes: sBox and invSBox as sequences, the entry of byte x at x + 1
\* (the concatenation with <<>> tabulates the entries once)
initSBox(modulus) ==
    [x \in 1..ByteMod |->
        IF x = 1 THEN 99
        ELSE LET inv == Inverse(x - 1, modulus)
             IN  affineTransform(IF inv.err # "" THEN 0 ELSE inv.out)] \o <<>>

\* invSBox[sBox[i]] = i for i = 0 .. 255 in turn: the last i wins, and an
\* entry no sBox[i] names stays 0
initInvSBox(sBox) ==
    [v \in 1..ByteMod |->
        LET from == {i \in 0..(ByteMod - 1) : sBox[i + 1] = v - 1}
        IN  IF from = {} THEN 0
            ELSE CHOOSE i \in from : \A k \in from : k <= i] \o <<>>

NewRijndaelCipher(blockSize, keySize, modulus) ==
    IF blockSize \notin {16, 24, 32} THEN Fail("block size")
    ELSE IF keySize \notin {16, 24, 32} THEN Fail("key size")
    ELSE
      LET sBox == initSBox(modulus)
      IN  Ok([kind |-> "Rijndael",
              modulus |-> modulus,
              blockSize |-> blockSize,
              keySize |-> keySize,
              rounds |-> CASE keySize = 24 -> 12 [] keySize = 32 -> 14 [] OTHER -> 10,
              sBox |-> sBox,
              invSBox |-> initInvSBox(sBox),
              roundKeys |-> <<>>])

\* rcon(round)
RECURSIVE rcon(_)
rcon(round) == IF round <= 1 THEN 1 ELSE MultiplySimple(rcon(round - 1), 2)

\* the words word .. nb-1 of a round key: each is the previous key's word
\* xor the word before it in the new key
RECURSIVE RijndaelWordsFrom(_, _, _, _)
RijndaelWordsFrom(prevKey, before, word, nb) ==
    IF word >= nb THEN <<>>
    ELSE
      LET w == [j \in 1..4 |-> Xor8(prevKey[4 * word + j], before[j])]
      IN  w \o RijndaelWordsFrom(prevKey, w, word + 1, nb)

\* round key i from round key i-1
RijndaelNextKey(rc, prevKey, i) ==
    LET nk == rc.keySize \div 4
        nb == rc.blockSize \div 4
        startIdx == (i - 1) * nk * 4 + (nk - 1) * 4
        temp0 == IF startIdx + 4 <= Len(prevKey)
                   THEN Slice(prevKey, startIdx, startIdx + 4)
                   ELSE Slice(prevKey, Len(prevKey) - 4, Len(prevKey))
        sub(w) == [j \in 1..4 |-> rc.sBox[w[j] + 1]]
        rot == <<temp0[2], temp0[3], temp0[4], temp0[1]>>
        temp == IF i % nk = 0
                  THEN [sub(rot) EXCEPT ![1] = Xor8(sub(rot)[1], rcon(i \div nk))]
                ELSE IF nk > 6 /\ i % nk = 4 THEN sub(temp0)
                ELSE temp0
        first == [j \in 1..4 |-> Xor8(prevKey[j], temp[j])]
    IN  first \o RijndaelWordsFrom(prevKey, first, 1, nb)

\* the round keys i .. nr
RECURSIVE RijndaelKeysFrom(_, _, _)
RijndaelKeysFrom(rc, prevKey, i) ==
    IF i > rc.rounds THEN <<>>
    ELSE LET currentKey == RijndaelNextKey(rc, prevKey, i)
         IN  <<currentKey>> \o RijndaelKeysFrom(rc, currentKey, i + 1)

\* RijndaelKeySchedule.GenerateRoundKeys(masterKey): never an error
RijndaelGenerateRoundKeys(rc, masterKey) ==
    LET nk == rc.keySize \div 4
        first == [k \in 1..rc.blockSize |->
                    IF (k - 1) \div 4 < nk /\ k <= Len(masterKey)
                      THEN masterKey[k] ELSE 0]
    IN  Ok(<<first>> \o RijndaelKeysFrom(rc, first, 1))

\* rc.SetKey(key): the error and the cipher after the call
RijndaelSetKey(rc, key) ==
    IF Len(key) # rc.keySize THEN [err |-> "key size", c |-> rc]
    ELSE
      LET roundKeys == RijndaelGenerateRoundKeys(rc, key)
      IN  IF roundKeys.err # ""
            THEN [err |-> "failed to generate round keys", c |-> rc]
            ELSE [err |-> "", c |-> [rc EXCEPT !.roundKeys = roundKeys.out]]

\* (here and below the concatenation with <<>> tabulates the new state once)
subBytes(rc, state) ==
    [k \in 1..Len(state) |-> rc.sBox[state[k] + 1]] \o <<>>

invSubBytes(rc, state) ==
    [k \in 1..Len(state) |-> rc.invSBox[state[k] + 1]] \o <<>>

\* the byte (counted from 0) of the old state each byte of the new one takes
ShiftRowsFrom == <<0, 5, 10, 15, 4, 9, 14, 3, 8, 13, 2, 7, 12, 1, 6, 11>>

InvShiftRowsFrom == <<0, 13, 10, 7, 4, 1, 14, 11, 8, 5, 2, 15, 12, 9, 6, 3>>

shiftRows(rc, state) ==
    IF rc.blockSize = 16
      THEN [k \in 1..16 |-> state[ShiftRowsFrom[k] + 1]] \o <<>>
      ELSE state

invShiftRows(rc, state) ==
    IF rc.blockSize = 16
      THEN [k \in 1..16 |-> state[InvShiftRowsFrom[k] + 1]] \o <<>>
      ELSE state

Xor4(a, b, c, d) == Xor8(Xor8(a, b), Xor8(c, d))

mixColumns(rc, state) ==
    [k \in 1..rc.blockSize |->
        LET i == 4 * ((k - 1) \div 4)
            s0 == state[i + 1]
            s1 == state[i + 2]
            s2 == state[i + 3]
            s3 == state[i + 4]
        IN  CASE (k - 1) % 4 = 0 ->
                   Xor4(MultiplySimple(2, s0), MultiplySimple(3, s1), s2, s3)
              [] (k - 1) % 4 = 1 ->
                   Xor4(s0, MultiplySimple(2, s1), MultiplySimple(3, s2), s3)
              [] (k - 1) % 4 = 2 ->
                   Xor4(s0, s1, MultiplySimple(2, s2), MultiplySimple(3, s3))
              [] OTHER ->
                   Xor4(MultiplySimple(3, s0), s1, s2, MultiplySimple(2, s3))]
    \o <<>>

invMixColumns(rc, state) ==
    [k \in 1..rc.blockSize |->
        LET i == 4 * ((k - 1) \div 4)
            s0 == state[i + 1]
            s1 == state[i + 2]
            s2 == state[i + 3]
            s3 == state[i + 4]
        IN  CASE (k - 1) % 4 = 0 ->
                   Xor4(MultiplySimple(14, s0), MultiplySimple(11, s1),
                        MultiplySimple(13, s2), MultiplySimple(9, s3))
              [] (k - 1) % 4 = 1 ->
                   Xor4(MultiplySimple(9, s0), MultiplySimple(14, s1),
                        MultiplySimple(11, s2), MultiplySimple(13, s3))
              [] (k - 1) % 4 = 2 ->
                   Xor4(MultiplySimple(13, s0), MultiplySimple(9, s1),
                        MultiplySimple(14, s2), MultiplySimple(11, s3))
              [] OTHER ->
                   Xor4(MultiplySimple(11, s0), MultiplySimple(13, s1),
                        MultiplySimple(9, s2), MultiplySimple(14, s3))]
    \o <<>>

addRoundKey(state, roundKey) ==
    [k \in 1..Len(state) |-> Xor8(state[k], roundKey[k])] \o <<>>

\* the rounds round .. rounds-1 of EncryptBlock
RECURSIVE RijndaelRounds(_, _, _)
RijndaelRounds(rc, state, round) ==
    IF round >= rc.rounds THEN state
    ELSE
      LET next == addRoundKey(mixColumns(rc, shiftRows(rc, subBytes(rc, state))),
                              rc.roundKeys[round + 1])
      IN  \* the steps work in place: the state keeps its length
          IF Len(next) # Len(state) THEN <<>>
          ELSE RijndaelRounds(rc, next, round + 1)

RijndaelEncryptBlock(rc, plainBlock) ==
    IF Len(plainBlock) # rc.blockSize THEN Fail("block size")
    ELSE IF Len(rc.roundKeys) = 0 THEN Fail("key not set")
    ELSE
      LET state == RijndaelRounds(rc, addRoundKey(plainBlock, rc.roundKeys[1]), 1)
      IN  Ok(addRoundKey(shiftRows(rc, subBytes(rc, state)),
                         rc.roundKeys[rc.rounds + 1]))

\* the rounds round .. 1 of DecryptBlock
RECURSIVE RijndaelInvRounds(_, _, _)
RijndaelInvRounds(rc, state, round) ==
    IF round <= 0 THEN state
    ELSE
      LET next == invSubBytes(rc, invShiftRows(rc,
                      invMixColumns(rc, addRoundKey(state, rc.roundKeys[round + 1]))))
      IN  IF Len(next) # Len(state) THEN <<>>
          ELSE RijndaelInvRounds(rc, next, round - 1)

RijndaelDecryptBlock(rc, cipherBlock) ==
    IF Len(cipherBlock) # rc.blockSize THEN Fail("block size")
    ELSE IF Len(rc.roundKeys) = 0 THEN Fail("key not set")
    ELSE
      LET state == invSubBytes(rc, invShiftRows(rc,
                       addRoundKey(cipherBlock, rc.roundKeys[rc.rounds + 1])))
      IN  Ok(addRoundKey(RijndaelInvRounds(rc, state, rc.rounds - 1),
                         rc.roundKeys[1]))

\* ------------------------------------------------------------------------
\* ISymmetricCipher (permute.go)
\* ------------------------------------------------------------------------

\* c.SetKey(key): the error and the cipher after the call
\* a bare FeistelNetwork has the three methods too (kind "Feistel"): its
\* SetKey from the return r of the driver on
BareKeySet(c, r) == [err |-> r.err, c |-> [c EXCEPT !.feistel = Unbound(r.fn, c.feistel)]]

SetKey(c, key) ==
    CASE c.kind = "DES" -> DESSetKey(c, key)
      [] c.kind = "Rijndael" -> RijndaelSetKey(c, key)
      [] c.kind = "Feistel" ->
           BareKeySet(c, FeistelSetKey(DESFeistel(c), key))
      [] OTHER -> DEALSetKey(c, key)

EncryptBlock(c, plainBlock) ==
    CASE c.kind = "DES" -> DESEncryptBlock(c, plainBlock)
      [] c.kind = "Rijndael" -> RijndaelEncryptBlock(c, plainBlock)
      [] c.kind = "Feistel" -> FeistelEncryptBlock(DESFeistel(c), plainBlock)
      [] OTHER -> DEALEncryptBlock(c, plainBlock)

DecryptBlock(c, cipherBlock) ==
    CASE c.kind = "DES" -> DESDecryptBlock(c, cipherBlock)
      [] c.kind = "Rijndael" -> RijndaelDecryptBlock(c, cipherBlock)
      [] c.kind = "Feistel" -> FeistelDecryptBlock(DESFeistel(c), cipherBlock)
      [] OTHER -> DEALDecryptBlock(c, cipherBlock)

\* ------------------------------------------------------------------------
\* Mode driver (cipher_context.go)
\* ------------------------------------------------------------------------

\* The contexts of this model hold the cipher of BlockSize bytes defined
\* above, or its double.  The interface field cipher of a context holds,
\* while the context is stored, the cipher's fields.  Encrypt and Decrypt run
\* on the context at work: behind the field, the cipher's two block methods
\* as functions of their argument.
AtWork(ctx) ==
    [ctx EXCEPT !.cipher =
        [EncryptBlock |->
            [block \in Seq(Byte) |->
                IF rejected(ctx.cipher, block) THEN Fail("primitive failure")
                ELSE MiniEncryptBlock(ctx.cipher, block)],
         DecryptBlock |->
            [block \in Seq(Byte) |->
                IF rejected(ctx.cipher, block) THEN Fail("primitive failure")
                ELSE MiniDecryptBlock(ctx.cipher, block)]]]

xorBlocks(dest, src) ==
    [i \in 1..Min(Len(dest), Len(src)) |-> Xor8(dest[i], src[i])]

\* counter[i]++ from position i down to the first byte that does not wrap
RECURSIVE incrementFrom(_, _)
incrementFrom(counter, i) ==
    IF i = 0 THEN counter
    ELSE LET v == Uint8(counter[i] + 1)
         IN  IF v # 0 THEN [counter EXCEPT ![i] = v]
             ELSE incrementFrom([counter EXCEPT ![i] = v], i - 1)

incrementCounter(counter) == incrementFrom(counter, Len(counter))

\* One turn of the block loop of Encrypt: the error, the next chaining value
\* and the bytes appended to the ciphertext.  delta is the random mask that
\* RandomDelta draws for this block.
EncryptStep(ctx, block, currentBlock, delta) ==
    LET Step(enc, cur, app) ==
            IF enc.err = "panic" THEN [err |-> "panic", cur |-> <<>>, app |-> <<>>]
            ELSE IF enc.err # "" THEN [err |-> "encryption failed", cur |-> <<>>, app |-> <<>>]
            ELSE [err |-> "", cur |-> cur, app |-> app]
    IN  IF ctx.mode = CipherModeECB
          THEN LET e == ctx.cipher.EncryptBlock[block]
               IN  Step(e, currentBlock, e.out)
        ELSE IF ctx.mode = CipherModeCBC
          THEN LET e == ctx.cipher.EncryptBlock[xorBlocks(block, currentBlock)]
               IN  Step(e, e.out, e.out)
        ELSE IF ctx.mode = CipherModePCBC
          THEN LET e == ctx.cipher.EncryptBlock[xorBlocks(block, currentBlock)]
               IN  Step(e, xorBlocks(block, e.out), e.out)
        ELSE IF ctx.mode = CipherModeCFB
          THEN LET e == ctx.cipher.EncryptBlock[currentBlock]
                   x == xorBlocks(e.out, block)
               IN  Step(e, x, x)
        ELSE IF ctx.mode = CipherModeOFB
          THEN LET e == ctx.cipher.EncryptBlock[currentBlock]
               IN  Step(e, e.out, xorBlocks(e.out, block))
        ELSE IF ctx.mode = CipherModeCTR
          THEN LET e == ctx.cipher.EncryptBlock[currentBlock]
               IN  Step(e, incrementCounter(currentBlock), xorBlocks(e.out, block))
        ELSE IF ctx.mode = CipherModeRandomDelta
          THEN LET e == ctx.cipher.EncryptBlock[xorBlocks(block, delta)]
               IN  Step(e, currentBlock, delta \o e.out)
        ELSE [err |-> "unsupported cipher mode", cur |-> <<>>, app |-> <<>>]

\* the block loop of Encrypt from byte offset i on; blk counts the blocks
RECURSIVE EncryptLoop(_, _, _, _, _, _, _)
EncryptLoop(ctx, padded, i, blk, currentBlock, ciphertext, seed) ==
    IF i >= Len(padded) THEN Ok(ciphertext)
    ELSE
      LET end == Min(i + ctx.blockSize, Len(padded))
          block == MakeCopy(ctx.blockSize, Slice(padded, i, end))
          delta == [j \in 1..ctx.blockSize |->
                      RandByte(seed, blk * ctx.blockSize + j)]
          s == EncryptStep(ctx, block, currentBlock, delta)
      IN  IF s.err # "" THEN Fail(s.err)
          ELSE EncryptLoop(ctx, padded, i + ctx.blockSize, blk + 1, s.cur,
                           ciphertext \o s.app, seed)

\* One turn of the block loop of Decrypt: the error, the next chaining value
\* and the bytes appended to the plaintext.
DecryptStep(ctx, block, currentBlock, delta) ==
    LET Step(r, cur, app) ==
            IF r.err = "panic" THEN [err |-> "panic", cur |-> <<>>, app |-> <<>>]
            ELSE IF r.err # "" THEN [err |-> "decryption failed", cur |-> <<>>, app |-> <<>>]
            ELSE [err |-> "", cur |-> cur, app |-> app]
    IN  IF ctx.mode = CipherModeECB
          THEN LET d == ctx.cipher.DecryptBlock[block]
               IN  Step(d, currentBlock, d.out)
        ELSE IF ctx.mode = CipherModeCBC
          THEN LET d == ctx.cipher.DecryptBlock[block]
               IN  Step(d, block, xorBlocks(d.out, currentBlock))
        ELSE IF ctx.mode = CipherModePCBC
          THEN LET d == ctx.cipher.DecryptBlock[block]
                   p == xorBlocks(d.out, currentBlock)
               IN  Step(d, xorBlocks(p, block), p)
        ELSE IF ctx.mode = CipherModeCFB
          THEN LET e == ctx.cipher.EncryptBlock[currentBlock]
               IN  Step(e, block, xorBlocks(e.out, block))
        ELSE IF ctx.mode = CipherModeOFB
          THEN LET e == ctx.cipher.EncryptBlock[currentBlock]
               IN  Step(e, e.out, xorBlocks(e.out, block))
        ELSE IF ctx.mode = CipherModeCTR
          THEN LET e == ctx.cipher.EncryptBlock[currentBlock]
               IN  Step(e, incrementCounter(currentBlock), xorBlocks(e.out, block))
        ELSE IF ctx.mode = CipherModeRandomDelta
          THEN LET d == ctx.cipher.DecryptBlock[block]
               IN  Step(d, currentBlock, xorBlocks(d.out, delta))
        ELSE [err |-> "unsupported cipher mode", cur |-> <<>>, app |-> <<>>]

\* the step of the Decrypt loop
decryptStride(ctx) ==
    IF ctx.mode = CipherModeRandomDelta THEN ctx.blockSize * 2 ELSE ctx.blockSize

\* the block loop of Decrypt from byte offset i on: the error and the
\* plaintext before padding removal
RECURSIVE DecryptLoop(_, _, _, _, _)
DecryptLoop(ctx, ciphertext, i, currentBlock, plaintext) ==
    IF i >= Len(ciphertext) \/ i + ctx.blockSize > Len(ciphertext)
      THEN Ok(plaintext)
    ELSE
      LET step == decryptStride(ctx)
          isRD == ctx.mode = CipherModeRandomDelta
          delta == IF isRD THEN Slice(ciphertext, i, i + ctx.blockSize) ELSE <<>>
          from == IF isRD THEN i + ctx.blockSize ELSE i
          end == IF isRD THEN Min(i + step, Len(ciphertext))
                         ELSE Min(i + ctx.blockSize, Len(ciphertext))
          raw == Slice(ciphertext, from, end)
          block == IF Len(raw) < ctx.blockSize
                     THEN raw \o Zeros(ctx.blockSize - Len(raw))
                     ELSE raw
          s == DecryptStep(ctx, block, currentBlock, delta)
      IN  IF s.err # "" THEN Fail(s.err)
          ELSE DecryptLoop(ctx, ciphertext, i + step, s.cur, plaintext \o s.app)

\* ------------------------------------------------------------------------
\* Block-parallel ECB and CTR (cipher_context.go)
\* ------------------------------------------------------------------------

\* the share rounded down instead of up
blocksPerThreadFloor(numBlocks, numThreads) ==
    numBlocks \div numThreads

blocksPerThread(numBlocks, numThreads) ==
    (numBlocks + numThreads - 1) \div numThreads

\* the block range [start, end) of worker t
workerStart(t, numBlocks, numThreads) ==
    t * blocksPerThread(numBlocks, numThreads)

workerEnd(t, numBlocks, numThreads) ==
    Min(workerStart(t, numBlocks, numThreads)
          + blocksPerThread(numBlocks, numThreads), numBlocks)

\* the workers the launch loop starts
launched(numBlocks, numThreads) ==
    {t \in 0..(numThreads - 1) : workerStart(t, numBlocks, numThreads) < numBlocks}

\* numThreads of the ECB calls and of the CTR call, from runtime.NumCPU()
ecbThreads(ncpu) == IF ncpu = 0 THEN 4 ELSE ncpu

ctrThreads(ncpu, numBlocks) == Min(IF ncpu = 0 THEN 4 ELSE ncpu, numBlocks)

\* localCounter of a CTR worker: a copy of ctx.iv incremented start times
RECURSIVE incrementTimes(_, _)
incrementTimes(counter, n) ==
    IF n = 0 THEN counter ELSE incrementTimes(incrementCounter(counter), n - 1)

\* what an ECB worker computes for block i of data
ecbBlock(ctx, data, i, decrypt) ==
    LET block == Slice(data, i * ctx.blockSize, (i + 1) * ctx.blockSize)
    IN  IF decrypt THEN ctx.cipher.DecryptBlock[block]
                   ELSE ctx.cipher.EncryptBlock[block]

\* what a CTR worker computes for block i of data with its counter
ctrBlock(ctx, data, i, localCounter) ==
    Only({IF encryptedCounter.err # "" THEN encryptedCounter
          ELSE Ok(xorBlocks(encryptedCounter.out,
                            Slice(data, i * ctx.blockSize, (i + 1) * ctx.blockSize))) :
          encryptedCounter \in {ctx.cipher.EncryptBlock[localCounter]}})

\* a worker's loop over the blocks i .. end-1, run to its end: the error and
\* the output buffer after it
RECURSIVE runWorker(_, _, _, _, _, _, _)
runWorker(ctx, kind, data, i, end, localCounter, out) ==
    IF i >= end THEN Ok(out)
    ELSE
      LET r == IF kind = "ctr" THEN ctrBlock(ctx, data, i, localCounter)
               ELSE ecbBlock(ctx, data, i, kind = "ecbdec")
      IN  IF r.err # "" THEN [err |-> r.err, out |-> out]
          ELSE runWorker(ctx, kind, data, i + 1, end,
                         IF kind = "ctr" THEN incrementCounter(localCounter)
                                         ELSE localCounter,
                         CopyAt(out, i * ctx.blockSize, r.out))

\* the workers t, t+1, .. run one after the other
RECURSIVE runWorkers(_, _, _, _, _, _, _)
runWorkers(ctx, kind, data, t, numThreads, out, err) ==
    LET numBlocks == Len(data) \div ctx.blockSize
    IN  IF t >= numThreads \/ workerStart(t, numBlocks, numThreads) >= numBlocks
          THEN [err |-> err, out |-> out]
        ELSE
          LET start == workerStart(t, numBlocks, numThreads)
              w == runWorker(ctx, kind, data, start,
                             workerEnd(t, numBlocks, numThreads),
                             IF kind = "ctr" THEN incrementTimes(ctx.iv, start)
                                             ELSE <<>>,
                             out)
          IN  runWorkers(ctx, kind, data, t + 1, numThreads, w.out,
                         IF err = "" THEN w.err ELSE err)

\* the value a parallel call returns once every worker is done
parallelReturn(r) ==
    IF r.err = "panic" THEN Fail("panic")
    ELSE IF r.err # "" THEN Fail("worker failed")
    ELSE Ok(r.out)

encryptECBParallel(ctx, padded, ncpu) ==
    parallelReturn(runWorkers(ctx, "ecbenc", padded, 0, ecbThreads(ncpu),
                              Zeros(Len(padded)), ""))

decryptECBParallel(ctx, ciphertext, ncpu) ==
    parallelReturn(runWorkers(ctx, "ecbdec", ciphertext, 0, ecbThreads(ncpu),
                              Zeros(Len(ciphertext)), ""))

encryptCTRParallel(ctx, padded, ncpu) ==
    LET numBlocks == Len(padded) \div ctx.blockSize
        numThreads == ctrThreads(ncpu, numBlocks)
    IN  IF numThreads = 0 THEN Fail("panic")
        ELSE parallelReturn(runWorkers(ctx, "ctr", padded, 0, numThreads,
                                       Zeros(Len(padded)), ""))

\* ------------------------------------------------------------------------
\* Encrypt and Decrypt (cipher_context.go)
\* ------------------------------------------------------------------------

\* The chaining variable currentBlock at the head of the block loops of
\* Encrypt and Decrypt: make([]uint8, n) gives it an array of its own, which
\* copy(currentBlock, ctx.iv) fills.  The first definition is the variable
\* bound to the stored array instead (currentBlock := ctx.iv).
currentBlockAliased(ctx, n) == [array |-> "ctx.iv", bytes |-> ctx.iv]

newCurrentBlock(ctx, n) == [array |-> "currentBlock", bytes |-> MakeCopy(n, ctx.iv)]

\* The bytes of the array the CTR case increments in place when the block
\* loop over n bytes is left; whole tells the loop of Decrypt, which also
\* stops before a block that is not whole.
RECURSIVE counterAfterLoop(_, _, _, _, _)
counterAfterLoop(ctx, n, i, counter, whole) ==
    IF i >= n \/ (whole /\ i + ctx.blockSize > n) THEN counter
    ELSE IF ctx.cipher.EncryptBlock[counter].err # "" THEN counter
    ELSE counterAfterLoop(ctx, n, i + ctx.blockSize, incrementCounter(counter), whole)

\* ctx.iv when the block loop is left: the loops assign to no field of ctx,
\* and of all their cases only CTR writes into an array (incrementCounter
\* on currentBlock), every other case rebinds the variable
ivAfterLoop(ctx, n, currentBlock, whole) ==
    IF currentBlock.array = "ctx.iv" /\ ctx.mode = CipherModeCTR
      THEN counterAfterLoop(ctx, n, 0, currentBlock.bytes, whole)
      ELSE ctx.iv

\* The stored context c when ctx.Encrypt(plaintext, parallel) returns.  The
\* parallel paths only read ctx.iv (the source of a worker's copy).
contextAfterEncrypt(c, plaintext, parallel, seed) ==
    LET ctx == AtWork(c)
        padded == applyPadding(plaintext, ctx.blockSize, ctx.paddingMode, seed)
    IN  IF padded.err # "" THEN c
        ELSE IF ctx.mode \in {CipherModeECB, CipherModeCTR} /\ parallel THEN c
        ELSE [c EXCEPT !.iv = ivAfterLoop(ctx, Len(padded.out),
                                          newCurrentBlock(ctx, ctx.blockSize), FALSE)]

\* the stored context c when ctx.Decrypt(ciphertext, parallel) returns
contextAfterDecrypt(c, ciphertext, parallel) ==
    LET ctx == AtWork(c)
    IN  IF ctx.mode \in {CipherModeECB, CipherModeCTR} /\ parallel THEN c
        ELSE [c EXCEPT !.iv = ivAfterLoop(ctx, Len(ciphertext),
                                          newCurrentBlock(ctx, Len(ctx.iv)), TRUE)]

\* ctx.Encrypt(plaintext, parallel) for a non-nil plaintext; seed is the
\* random source of the call, ncpu the value of runtime.NumCPU()
Encrypt(ctx, plaintext, parallel, seed, ncpu) ==
    LET padded == applyPadding(plaintext, ctx.blockSize, ctx.paddingMode, seed)
    IN  IF padded.err # "" THEN Fail("padding failed")
        ELSE IF ctx.mode = CipherModeECB /\ parallel
          THEN encryptECBParallel(ctx, padded.out, ncpu)
        ELSE IF ctx.mode = CipherModeCTR /\ parallel
          THEN encryptCTRParallel(ctx, padded.out, ncpu)
        ELSE EncryptLoop(ctx, padded.out, 0, 0,
                         newCurrentBlock(ctx, ctx.blockSize).bytes, <<>>,
                         seed + ctx.blockSize)

\* ctx.Decrypt(ciphertext, parallel) for a non-nil ciphertext
Decrypt(ctx, ciphertext, parallel, ncpu) ==
    LET plaintext ==
          IF ctx.mode = CipherModeECB /\ parallel
            THEN decryptECBParallel(ctx, ciphertext, ncpu)
          ELSE IF ctx.mode = CipherModeCTR /\ parallel
            THEN encryptCTRParallel(ctx, ciphertext, ncpu)
          ELSE DecryptLoop(ctx, ciphertext, 0, newCurrentBlock(ctx, Len(ctx.iv)).bytes, <<>>)
    IN  IF plaintext.err # "" THEN plaintext
        ELSE removePadding(plaintext.out, ctx.blockSize, ctx.paddingMode)

\* ------------------------------------------------------------------------
\* The cipher context as a state machine
\* ------------------------------------------------------------------------

\* ctx.SetKey(newKey): the error and the context after the call
CtxSetKey(c, newKey) ==
    LET r == MiniSetKey(c.cipher, newKey)
    IN  [err |-> r.err, ctx |-> [c EXCEPT !.key = newKey, !.cipher = r.c]]

NewCipherContext(cipher, key, mode, paddingMode, iv, blockSize, parallel) ==
    LET c0 == [cipher |-> cipher, key |-> key, mode |-> mode,
               paddingMode |-> paddingMode, iv |-> <<>>,
               blockSize |-> blockSize, parallel |-> parallel]
        r == CtxSetKey(c0, key)
    IN  IF r.err # "" THEN [err |-> "failed to set key", ctx |-> c0]
        ELSE [err |-> "",
              ctx |-> [r.ctx EXCEPT !.iv =
                          IF Len(iv) = 0 /\ mode # CipherModeECB
                            THEN Zeros(blockSize) ELSE iv]]

SetMode(c, newMode) == [c EXCEPT !.mode = newMode]

SetPaddingMode(c, newPaddingMode) == [c EXCEPT !.paddingMode = newPaddingMode]

SetIV(c, newIV) == [c EXCEPT !.iv = newIV]

\* the seven modes and one value that is none of them
CipherModes == {CipherModeECB, CipherModeCBC, CipherModePCBC, CipherModeCFB,
                CipherModeOFB, CipherModeCTR, CipherModeRandomDelta}

UnknownMode == CipherModeRandomDelta + 1

\* keys: two of the cipher's key length and one that is too short
GoodKeys == {GenData(1, BlockSize), GenData(2, BlockSize)}

CtxKeys == GoodKeys \cup {GenData(1, BlockSize - 1)}

\* IVs: none, one byte short, two of the block size, one byte long
CtxIVs == {<<>>, GenData(5, BlockSize - 1), GenData(4, BlockSize),
           GenData(2, BlockSize), GenData(1, BlockSize + 1)}

\* plaintexts and ciphertexts of 0 .. 2*blockSize+1 bytes
CtxData == {GenData(g, n) : g \in Gens, n \in 0..(2 * BlockSize + 1)}

Op(op, in, par, res, src, rt) ==
    [op |-> op, in |-> in, par |-> par, res |-> res, src |-> src, rt |-> rt]

NoOp(op) == Op(op, <<>>, FALSE, NoResult, <<>>, FALSE)

\* the contexts NewCipherContext returns for ECB without an IV and for CBC
\* with an IV of the block size
CtxInit ==
    /\ PadIdle
    /\ ParIdle
    /\ AuxIdle
    /\ CphIdle
    /\ \E mode \in {CipherModeECB, CipherModeCBC}, key \in GoodKeys :
         LET iv == IF mode = CipherModeECB THEN <<>> ELSE GenData(4, BlockSize)
             r == NewCipherContext(NewMiniCipher, key, mode, PaddingModePKCS7,
                                   iv, BlockSize, FALSE)
         IN  r.err = "" /\ context = r.ctx
    /\ lastOp = NoOp("new")

\* no call's return value is pending: the caller is free to make a call
CtxReady == lastOp.op \notin {"enc", "enc2", "dec"}

CtxDoSetMode ==
    /\ CtxReady
    /\ \E m \in CipherModes \cup {UnknownMode} : context' = SetMode(context, m)
    /\ lastOp' = NoOp("set")
    /\ UNCHANGED <<padVars, parVars, cphVars, auxVars>>

CtxDoSetPaddingMode ==
    /\ CtxReady
    /\ \E pm \in PaddingModes \cup {UnknownPadding} : context' = SetPaddingMode(context, pm)
    /\ lastOp' = NoOp("set")
    /\ UNCHANGED <<padVars, parVars, cphVars, auxVars>>

CtxDoSetIV ==
    /\ CtxReady
    /\ \E iv \in CtxIVs : context' = SetIV(context, iv)
    /\ lastOp' = NoOp("set")
    /\ UNCHANGED <<padVars, parVars, cphVars, auxVars>>

CtxDoSetKey ==
    /\ CtxReady
    /\ \E k \in CtxKeys :
         LET r == CtxSetKey(context, k)
         IN  /\ context' = r.ctx
             /\ lastOp' = Op("setkey", k, FALSE, [err |-> r.err, out |-> <<>>],
                             <<>>, FALSE)
    /\ UNCHANGED <<padVars, parVars, cphVars, auxVars>>

\* whether a call draws from the random source / starts workers
usesRandom(c) ==
    c.paddingMode = PaddingModeISO10126 \/ c.mode = CipherModeRandomDelta

usesWorkers(c, par) ==
    par /\ c.mode \in {CipherModeECB, CipherModeCTR}

\* ctx.Encrypt(x, parallel)
CtxDoEncrypt ==
    /\ CtxReady
    /\ \E x \in CtxData, par \in BOOLEAN :
         \E seed \in (IF usesRandom(context) THEN RandSeeds ELSE {0}),
            ncpu \in (IF usesWorkers(context, par) THEN 1..MaxCPU ELSE {1}) :
            /\ lastOp' = Op("enc", x, par, Encrypt(AtWork(context), x, par, seed, ncpu),
                            <<>>, FALSE)
            /\ context' = contextAfterEncrypt(context, x, par, seed)
    /\ UNCHANGED <<padVars, parVars, cphVars, auxVars>>

\* ctx.Encrypt(x, parallel) twice in a row by one caller: the second call
\* runs on the context the first one left and draws from the random source
\* anew; prev holds what the first call returned
CtxDoEncryptTwice ==
    /\ CtxReady
    /\ \E x \in CtxData, par \in BOOLEAN :
         \E seed \in (IF usesRandom(context) THEN RandSeeds ELSE {0}),
            again \in (IF usesRandom(context) THEN RandSeeds ELSE {0}),
            ncpu \in (IF usesWorkers(context, par) THEN 1..MaxCPU ELSE {1}) :
            \E between \in {contextAfterEncrypt(context, x, par, seed)} :
               /\ lastOp' = [prev |-> Encrypt(AtWork(context), x, par, seed, ncpu)] @@
                             Op("enc2", x, par,
                                Encrypt(AtWork(between), x, par, again, ncpu), <<>>, FALSE)
               /\ context' = contextAfterEncrypt(between, x, par, again)
    /\ UNCHANGED <<padVars, parVars, cphVars, auxVars>>

\* ctx.Decrypt(c, parallel) on the ciphertext the preceding Encrypt returned
CtxDoDecryptBack ==
    /\ lastOp.op = "enc"
    /\ lastOp.res.err = ""
    /\ \E par \in BOOLEAN :
         \E ncpu \in (IF usesWorkers(context, par) THEN 1..MaxCPU ELSE {1}) :
            /\ lastOp' = Op("dec", lastOp.res.out, par,
                            Decrypt(AtWork(context), lastOp.res.out, par, ncpu),
                            lastOp.in, TRUE)
            /\ context' = contextAfterDecrypt(context, lastOp.res.out, par)
    /\ UNCHANGED <<padVars, parVars, cphVars, auxVars>>

\* ctx.Decrypt(c, parallel) on any byte string
CtxDoDecrypt ==
    /\ CtxReady
    /\ \E c \in CtxData, par \in BOOLEAN :
         \E ncpu \in (IF usesWorkers(context, par) THEN 1..MaxCPU ELSE {1}) :
            /\ lastOp' = Op("dec", c, par, Decrypt(AtWork(context), c, par, ncpu),
                            <<>>, FALSE)
            /\ context' = contextAfterDecrypt(context, c, par)
    /\ UNCHANGED <<padVars, parVars, cphVars, auxVars>>

\* the caller is done with the value the last Encrypt or Decrypt returned
CtxDone ==
    /\ ~CtxReady
    /\ lastOp' = NoOp("set")
    /\ UNCHANGED <<context, padVars, parVars, cphVars, auxVars>>

CtxNext ==
    \/ CtxDoSetMode
    \/ CtxDoSetPaddingMode
    \/ CtxDoSetIV
    \/ CtxDoSetKey
    \/ CtxDoEncrypt
    \/ CtxDoEncryptTwice
    \/ CtxDoDecryptBack
    \/ CtxDoDecrypt
    \/ CtxDone

SpecCtx == CtxInit /\ [][CtxNext]_vars

\* ------------------------------------------------------------------------
\* A parallel call step by step: the workers interleave (cipher_context.go)
\* ------------------------------------------------------------------------

\* the parallel function Encrypt / Decrypt hands the data to
parallelKind(ctx, op) ==
    IF ctx.mode = CipherModeCTR THEN "ctr"
    ELSE IF op = "enc" THEN "ecbenc" ELSE "ecbdec"

\* numThreads of a parallel function
parallelThreads(kind, ncpu, numBlocks) ==
    IF kind = "ctr" THEN ctrThreads(ncpu, numBlocks) ELSE ecbThreads(ncpu)

\* the goroutines the launch loop starts, each with its block range
launchWorkers(numBlocks, numThreads) ==
    [t \in launched(numBlocks, numThreads) |->
        [pc |-> "start",
         i |-> workerStart(t, numBlocks, numThreads),
         end |-> workerEnd(t, numBlocks, numThreads),
         localCounter |-> <<>>]]

\* a channel made without a buffer
errorsUnbuffered(numThreads) == 0

\* errors := make(chan error, numThreads): the sends that do not block
errorsCapacity(numThreads) == numThreads

\* the error a worker sends: which worker, at which block
workerError(t, i) == [worker |-> t, block |-> i]

\* what Encrypt / Decrypt return from what the parallel function returned
callReturn(ctx, op, raw) ==
    IF op = "enc" \/ raw.err # "" THEN raw
    ELSE removePadding(raw.out, ctx.blockSize, ctx.paddingMode)

\* block ciphers of the parallel calls: the cipher and doubles of it whose
\* primitive fails on the blocks ending in one of the listed bytes
ParRejects == {{}, {2}, {1, 3}, {0, 1, 2, 3, 4}}

ParCiphers == {NewFaultyCipher(r) : r \in ParRejects}

ParIVs == {GenData(4, BlockSize), GenData(2, BlockSize)}

ParPaddings == {PaddingModeZeros, PaddingModePKCS7}

ParInit ==
    /\ PadIdle
    /\ CphIdle
    /\ ParIdle
    /\ AuxIdle
    /\ \E mode \in {CipherModeECB, CipherModeCTR}, c \in ParCiphers,
          pm \in ParPaddings, iv \in ParIVs :
         LET r == NewCipherContext(c, GenData(1, BlockSize), mode, pm, iv,
                                   BlockSize, TRUE)
         IN  r.err = "" /\ context = r.ctx
    /\ lastOp = NoOp("new")

\* the body of a parallel function up to wg.Wait(): buffer, channel, workers
ParLaunch(op, in, data, ncpu) ==
    LET kind == parallelKind(context, op)
        numBlocks == Len(data) \div context.blockSize
        numThreads == parallelThreads(kind, ncpu, numBlocks)
        call == [op |-> op, in |-> in, kind |-> kind, data |-> data,
                 ncpu |-> ncpu, numThreads |-> numThreads]
    IN  /\ parCall' = call
        /\ parOut' = Zeros(Len(data))
        /\ errors' = <<>>
        /\ IF numThreads = 0
             THEN \* blocksPerThread divides by zero
                  /\ workers' = <<>>
                  /\ parPC' = "returned"
                  /\ parRes' = [raw |-> Fail("panic"), ret |-> Fail("panic"),
                                cause |-> <<>>]
             ELSE /\ workers' = launchWorkers(numBlocks, numThreads)
                  /\ parPC' = "running"
                  /\ UNCHANGED parRes

\* ctx.Encrypt(x, true) up to the point where the workers run
ParEncrypt ==
    /\ parPC = "idle"
    /\ \E x \in CtxData, ncpu \in 1..MaxCPU :
         LET padded == applyPadding(x, context.blockSize, context.paddingMode, 0)
         IN  /\ padded.err = ""
             /\ ParLaunch("enc", x, padded.out, ncpu)
    /\ UNCHANGED <<padVars, ctxVars, cphVars, auxVars>>

\* ctx.Decrypt(c, true) up to the point where the workers run
ParDecrypt ==
    /\ parPC = "idle"
    /\ \E c \in CtxData, ncpu \in 1..MaxCPU : ParLaunch("dec", c, c, ncpu)
    /\ UNCHANGED <<padVars, ctxVars, cphVars, auxVars>>

\* a goroutine begins; a CTR worker sets up its counter under the mutex
ParWorkerStart(t) ==
    /\ parPC = "running"
    /\ workers[t].pc = "start"
    /\ workers' = [workers EXCEPT ![t].pc = "loop",
                     ![t].localCounter =
                        IF parCall.kind = "ctr"
                          THEN incrementTimes(MakeCopy(Len(context.iv), context.iv),
                                              workers[t].i)
                          ELSE <<>>]
    /\ UNCHANGED <<parCall, parPC, parOut, errors, parRes>>
    /\ UNCHANGED <<padVars, ctxVars, cphVars, auxVars>>

\* one turn of a worker's loop: leave it, send an error, or write a block
ParWorkerStep(t) ==
    /\ parPC = "running"
    /\ workers[t].pc = "loop"
    /\ LET w == workers[t]
       IN  IF w.i >= w.end
             THEN /\ workers' = [workers EXCEPT ![t].pc = "done"]
                  /\ UNCHANGED <<parOut, errors>>
           ELSE \E r \in {IF parCall.kind = "ctr"
                            THEN ctrBlock(AtWork(context), parCall.data, w.i,
                                          w.localCounter)
                            ELSE ecbBlock(AtWork(context), parCall.data, w.i,
                                          parCall.kind = "ecbdec")} :
                  IF r.err # ""
                    THEN /\ Len(errors) < errorsCapacity(parCall.numThreads)
                         /\ errors' = Append(errors, workerError(t, w.i))
                         /\ workers' = [workers EXCEPT ![t].pc = "done"]
                         /\ UNCHANGED parOut
                    ELSE /\ parOut' = CopyAt(parOut, w.i * context.blockSize, r.out)
                         /\ workers' = [workers EXCEPT ![t].i = w.i + 1,
                                          ![t].localCounter =
                                             IF parCall.kind = "ctr"
                                               THEN incrementCounter(w.localCounter)
                                               ELSE w.localCounter]
                         /\ UNCHANGED errors
    /\ UNCHANGED <<parCall, parPC, parRes>>
    /\ UNCHANGED <<padVars, ctxVars, cphVars, auxVars>>

\* wg.Wait() is over: the first error of the channel or the buffer is
\* returned, and Decrypt removes the padding
ParReturn ==
    /\ parPC = "running"
    /\ \A t \in DOMAIN workers : workers[t].pc = "done"
    /\ LET raw == IF Len(errors) > 0 THEN Fail("worker failed") ELSE Ok(parOut)
       IN  parRes' = [raw |-> raw,
                      ret |-> callReturn(context, parCall.op, raw),
                      cause |-> IF Len(errors) > 0 THEN <<Head(errors)>> ELSE <<>>]
    /\ parPC' = "returned"
    /\ UNCHANGED <<parCall, workers, parOut, errors>>
    /\ UNCHANGED <<padVars, ctxVars, cphVars, auxVars>>

\* the caller has the result; the call's buffer, channel and workers are gone
ParDone ==
    /\ parPC = "returned"
    /\ parCall' = [op |-> "none"]
    /\ parPC' = "idle"
    /\ workers' = <<>>
    /\ parOut' = <<>>
    /\ errors' = <<>>
    /\ parRes' = [raw |-> NoResult, ret |-> NoResult, cause |-> <<>>]
    /\ UNCHANGED <<padVars, ctxVars, cphVars, auxVars>>

ParNext ==
    \/ ParEncrypt
    \/ ParDecrypt
    \/ \E t \in DOMAIN workers : ParWorkerStart(t)
    \/ \E t \in DOMAIN workers : ParWorkerStep(t)
    \/ ParReturn
    \/ ParDone

SpecPar == ParInit /\ [][ParNext]_vars

\* a goroutine that can run does run, and so does the caller once wg.Wait()
\* is over
ParFairness ==
    /\ WF_vars(\E t \in DOMAIN workers : ParWorkerStart(t) \/ ParWorkerStep(t))
    /\ WF_vars(ParReturn)

SpecParLive == SpecPar /\ ParFairness

\* ------------------------------------------------------------------------
\* A block cipher instance and the calls made on it
\* ------------------------------------------------------------------------

\* number of distinct keys, and of distinct blocks, of each length tried
MaxKeys == 2
MaxBlocks == 2

\* the n-th byte string of the given length
Sample(n, length) == [i \in 1..length |-> (37 * n + 11 * i + n * i) % ByteMod]

\* the instances: DES, DEAL-128, Rijndael 128/128 over the AES polynomial,
\* and the Feistel driver as NewDESCipher configures it
CphInstances ==
    {NewDESCipher,
     NewDEALCipher(16).out,
     NewRijndaelCipher(16, 16, 27).out,
     [kind |-> "Feistel", feistel |-> NewDESCipher.feistel]}

\* the key and block lengths of an instance
CphKeySize(c) ==
    CASE c.kind \in {"DES", "Feistel"} -> 8
      [] c.kind = "Rijndael" -> c.keySize
      [] OTHER -> c.keyLength

CphBlockSize(c) ==
    CASE c.kind = "Rijndael" -> c.blockSize
      [] OTHER -> c.feistel.blockSize

\* the keys handed to SetKey: right-sized ones, an empty one, a short one
CphKeys(c) ==
    {Sample(n, CphKeySize(c)) : n \in 1..MaxKeys}
    \cup {<<>>, Sample(1, CphKeySize(c) - 1)}

\* the blocks handed to EncryptBlock and DecryptBlock: right-sized ones, an
\* empty one, a short one and a long one
CphBlocks(c) ==
    {Sample(n + 3, CphBlockSize(c)) : n \in 1..MaxBlocks}
    \cup {<<>>, Sample(2, CphBlockSize(c) - 2), Sample(3, CphBlockSize(c) + 2)}

CphInit ==
    /\ PadIdle
    /\ CtxIdle
    /\ ParIdle
    /\ AuxIdle
    /\ instance \in CphInstances
    /\ keyHistory = "none"
    /\ blockOp = [op |-> "none"]

\* instance.SetKey(key); keyHistory is "ok" once a call has returned nil
CphSetKey(key) ==
    /\ blockOp.op = "none"
    /\ LET r == SetKey(instance, key)
       IN  /\ instance' = r.c
           /\ keyHistory' = IF r.err = "" \/ keyHistory = "ok" THEN "ok" ELSE "failed"
           /\ blockOp' = [op |-> "setkey", in |-> key,
                          res |-> [err |-> r.err, out |-> <<>>]]
    /\ UNCHANGED <<padVars, ctxVars, parVars, auxVars>>

\* instance.EncryptBlock(block)
CphEncryptBlock(block) ==
    /\ blockOp.op = "none"
    /\ blockOp' = [op |-> "enc", in |-> block, res |-> EncryptBlock(instance, block)]
    /\ UNCHANGED <<instance, keyHistory, padVars, ctxVars, parVars, auxVars>>

\* instance.DecryptBlock(block)
CphDecryptBlock(block) ==
    /\ blockOp.op = "none"
    /\ blockOp' = [op |-> "dec", in |-> block, res |-> DecryptBlock(instance, block)]
    /\ UNCHANGED <<instance, keyHistory, padVars, ctxVars, parVars, auxVars>>

\* the caller has taken the result
CphDone ==
    /\ blockOp.op # "none"
    /\ blockOp' = [op |-> "none"]
    /\ UNCHANGED <<instance, keyHistory, padVars, ctxVars, parVars, auxVars>>

CphNext ==
    \/ \E key \in CphKeys(instance) : CphSetKey(key)
    \/ \E block \in CphBlocks(instance) : CphEncryptBlock(block)
    \/ \E block \in CphBlocks(instance) : CphDecryptBlock(block)
    \/ CphDone

SpecCipher == CphInit /\ [][CphNext]_vars

\* ------------------------------------------------------------------------
\* A Rijndael instance of any block size, key size and modulus
\* ------------------------------------------------------------------------

\* the moduli handed to NewRijndaelCipher: the irreducible 0x1B and 0x1D, the
\* reducible 0x00, and 0x11, which IsIrreducible lists
RijModuli == {27, 29, 0, 17}

\* the block sizes and the key sizes NewRijndaelCipher accepts
RijSizes == {16, 24, 32}

\* every pair of sizes over the AES polynomial, every modulus at 128/128
RijInstances(sizes, moduli) ==
    {NewRijndaelCipher(blockSize, keySize, 27).out :
        blockSize \in sizes, keySize \in sizes}
    \cup {NewRijndaelCipher(16, 16, modulus).out : modulus \in moduli}

\* the keys handed to SetKey: right-sized ones, a short one, the all-zero one
RijKeys(rc) ==
    {Sample(n, rc.keySize) : n \in 1..MaxKeys}
    \cup {Sample(1, rc.keySize - 1), GenData(0, rc.keySize)}

\* the blocks handed to EncryptBlock: right-sized ones, a short one and the
\* all-zero one
RijBlocks(rc) ==
    {Sample(n + 3, rc.blockSize) : n \in 1..MaxBlocks}
    \cup {Sample(2, rc.blockSize - 2), GenData(0, rc.blockSize)}

RijInit ==
    /\ PadIdle
    /\ CtxIdle
    /\ ParIdle
    /\ AuxIdle
    /\ instance \in RijInstances(RijSizes, RijModuli)
    /\ keyHistory = "none"
    /\ blockOp = [op |-> "none"]

\* rc.SetKey(key)
RijSetKey(key) ==
    /\ blockOp.op = "none"
    /\ LET r == RijndaelSetKey(instance, key)
       IN  /\ instance' = r.c
           /\ keyHistory' = IF r.err = "" \/ keyHistory = "ok" THEN "ok" ELSE "failed"
           /\ blockOp' = [op |-> "setkey", in |-> key,
                          res |-> [err |-> r.err, out |-> <<>>]]
    /\ UNCHANGED <<padVars, ctxVars, parVars, auxVars>>

\* cipherBlock, err := rc.EncryptBlock(block)
RijEncryptBlock(block) ==
    /\ blockOp.op = "none"
    /\ blockOp' = [op |-> "enc", in |-> block,
                   res |-> RijndaelEncryptBlock(instance, block)]
    /\ UNCHANGED <<instance, keyHistory, padVars, ctxVars, parVars, auxVars>>

\* rc.DecryptBlock(cipherBlock) on the block EncryptBlock has just returned
RijDecryptBack ==
    /\ blockOp.op = "enc"
    /\ blockOp.res.err = ""
    /\ blockOp' = [op |-> "decback", in |-> blockOp.res.out, src |-> blockOp.in,
                   res |-> RijndaelDecryptBlock(instance, blockOp.res.out)]
    /\ UNCHANGED <<instance, keyHistory, padVars, ctxVars, parVars, auxVars>>

\* rc.shiftRows(state) on a state of blockSize bytes, as the block methods
\* call it: the state after the call
RijShiftRows(state) ==
    /\ blockOp.op = "none"
    /\ Len(state) = instance.blockSize
    /\ blockOp' = [op |-> "shift", in |-> state, res |-> Ok(shiftRows(instance, state))]
    /\ UNCHANGED <<instance, keyHistory, padVars, ctxVars, parVars, auxVars>>

\* rc.invShiftRows(state) on the state shiftRows has just left
RijInvShiftRows ==
    /\ blockOp.op = "shift"
    /\ blockOp' = [op |-> "unshift", in |-> blockOp.res.out, src |-> blockOp.in,
                   res |-> Ok(invShiftRows(instance, blockOp.res.out))]
    /\ UNCHANGED <<instance, keyHistory, padVars, ctxVars, parVars, auxVars>>

\* the caller has taken the result
RijDone ==
    /\ blockOp.op # "none"
    /\ blockOp' = [op |-> "none"]
    /\ UNCHANGED <<instance, keyHistory, padVars, ctxVars, parVars, auxVars>>

RijNext ==
    \/ \E key \in RijKeys(instance) : RijSetKey(key)
    \/ \E block \in RijBlocks(instance) : RijEncryptBlock(block)
    \/ RijDecryptBack
    \/ \E state \in RijBlocks(instance) : RijShiftRows(state)
    \/ RijInvShiftRows
    \/ RijDone

SpecRij == RijInit /\ [][RijNext]_vars

\* ------------------------------------------------------------------------
\* The GF(2^8) service and the calls made on it
\* ------------------------------------------------------------------------

\* GetAllIrreduciblePolynomials(): the list it returns
GetAllIrreduciblePolynomials ==
    <<27, 29, 43, 77, 95, 99, 101, 105, 113, 135,
      141, 155, 157, 169, 177, 191, 199, 221, 231, 245,
      249, 253, 17, 19, 25, 37, 49, 55, 61, 71>>

\* IsIrreducible(poly): membership in the same list
IsIrreducible(poly) ==
    \E k \in 1..Len(GetAllIrreduciblePolynomials) :
        GetAllIrreduciblePolynomials[k] = poly

\* the largest element whose inverse is asked for
MaxElement == 15

\* the moduli tried: the listed ones, and 0x00 and 0x2D, which are not listed
GFModuli ==
    {GetAllIrreduciblePolynomials[k] : k \in 1..Len(GetAllIrreduciblePolynomials)}
    \cup {0, 45}

GFInit ==
    /\ PadIdle
    /\ CtxIdle
    /\ ParIdle
    /\ CphIdle
    /\ libCall = [fn |-> "NewGF28Service"]
    /\ rsa = [generated |-> FALSE]
    /\ desPool = {}
    /\ desCiphers = <<>>
    /\ applies = <<>>

\* inv, err := s.Inverse(a, modulus), and product, _ := s.Multiply(a, inv,
\* modulus) when there is no error
GFInverse(a, modulus) ==
    /\ libCall.fn \in {"NewGF28Service", "none"}
    /\ LET inv == Inverse(a, modulus)
       IN  libCall' = [fn |-> "Inverse", a |-> a, modulus |-> modulus,
                       listed |-> IsIrreducible(modulus), ret |-> inv,
                       product |-> IF inv.err # "" THEN 0
                                   ELSE Multiply(a, inv.out, modulus)]
    /\ UNCHANGED <<padVars, ctxVars, parVars, cphVars, rsa, poolVars>>

\* the caller has taken the result
GFDone ==
    /\ libCall.fn = "Inverse"
    /\ libCall' = [fn |-> "none"]
    /\ UNCHANGED <<padVars, ctxVars, parVars, cphVars, rsa, poolVars>>

GFNext ==
    \/ \E a \in 0..MaxElement, modulus \in GFModuli : GFInverse(a, modulus)
    \/ GFDone

SpecGF == GFInit /\ [][GFNext]_vars

\* ------------------------------------------------------------------------
\* RSA (the RSA service in deal_round_function.go); a big.Int is an integer
\* ------------------------------------------------------------------------

\* new(big.Int).SetBytes(b): the bytes read as a big-endian number
RECURSIVE SetBytes(_)
SetBytes(b) ==
    IF Len(b) = 0 THEN 0
    ELSE ByteMod * SetBytes(SubSeq(b, 1, Len(b) - 1)) + b[Len(b)]

\* x.Bytes(): the big-endian bytes of x without leading zeros, none for 0
RECURSIVE Bytes(_)
Bytes(x) == IF x = 0 THEN <<>> ELSE Bytes(x \div ByteMod) \o <<x % ByteMod>>

\* new(big.Int).Exp(a, b, m) for m > 0
RECURSIVE BigModExp(_, _, _)
BigModExp(a, b, m) ==
    IF b = 0 THEN 1 % m
    ELSE LET half == BigModExp(a, b \div 2, m)
             square == (half * half) % m
         IN  IF b % 2 = 1 THEN (square * (a % m)) % m ELSE square

RECURSIVE BigGCD(_, _)
BigGCD(a, b) == IF b = 0 THEN a ELSE BigGCD(b, a % b)

\* new(big.Int).ModInverse(e, phi): 0 stands for nil
BigModularInverse(e, phi) ==
    LET found == {d \in 1..(phi - 1) : ((e % phi) * d) % phi = 1}
    IN  IF found = {} THEN 0 ELSE CHOOSE d \in found : TRUE

\* validatePrimes(p, q) returns nil: p # q and |p - q| >= 2^minDiffBits, where
\* minDiffBits is 10 for every bit length below 220
validatePrimes(p, q) ==
    /\ p # q
    /\ (IF p > q THEN p - q ELSE q - p) >= 2 ^ 10

\* findPublicExponent(phi): the first of 65537, 17, 5, 3 coprime to phi, then
\* some exponent of the random search, then 65537
findPublicExponent(phi) ==
    LET candidates == <<65537, 17, 5, 3>>
        fit == {k \in 1..4 : BigGCD(candidates[k], phi) = 1}
        random == {e \in 2..(phi - 1) : BigGCD(e, phi) = 1}
    IN  IF fit # {} THEN candidates[CHOOSE k \in fit : \A j \in fit : k <= j]
        ELSE IF random # {} THEN CHOOSE e \in random : TRUE
        ELSE 65537

\* isVulnerableToWiener(d, n): d <= n^(1/4) / 3
isVulnerableToWiener(d, n) == d <= 10 /\ 81 * d * d * d * d <= n

\* GenerateKeyPair() with the primes p and q generatePrime returned
GenerateKeyPair(p, q) ==
    IF ~validatePrimes(p, q) THEN [err |-> "primes", key |-> [generated |-> FALSE]]
    ELSE
      LET n == p * q
          phi == (p - 1) * (q - 1)
          e == IF BigGCD(65537, phi) # 1 THEN findPublicExponent(phi) ELSE 65537
          d == BigModularInverse(e, phi)
      IN  IF d = 0 THEN [err |-> "no inverse", key |-> [generated |-> FALSE]]
          ELSE IF isVulnerableToWiener(d, n)
            THEN [err |-> "wiener", key |-> [generated |-> FALSE]]
          ELSE [err |-> "",
                key |-> [generated |-> TRUE, N |-> n, E |-> e, D |-> d,
                         P |-> p, Q |-> q]]

\* the blocks from byte i (counted from 0) on, each raised to exp modulo n,
\* their bytes appended
RECURSIVE ExpBlocksFrom(_, _, _, _, _)
ExpBlocksFrom(data, i, size, exp, n) ==
    IF i >= Len(data) THEN <<>>
    ELSE Bytes(BigModExp(SetBytes(Slice(data, i, Min(i + size, Len(data)))), exp, n))
         \o ExpBlocksFrom(data, i + size, size, exp, n)

\* rs.encryptBlockByBlock(message)
encryptBlockByBlock(rs, message) ==
    LET nBytes == Len(Bytes(rs.N))
        maxBlockSize == nBytes - 11
    IN  IF maxBlockSize <= 0 THEN Fail("key too small")
        ELSE Ok(ExpBlocksFrom(message, 0, maxBlockSize, rs.E, rs.N))

\* rs.Encrypt(message)
RSAEncrypt(rs, message) ==
    IF ~rs.generated THEN Fail("keys not generated")
    ELSE
      LET msgInt == SetBytes(message)
      IN  IF msgInt >= rs.N THEN encryptBlockByBlock(rs, message)
          ELSE Ok(Bytes(BigModExp(msgInt, rs.E, rs.N)))

\* rs.decryptBlockByBlock(ciphertext)
decryptBlockByBlock(rs, ciphertext) ==
    Ok(ExpBlocksFrom(ciphertext, 0, Len(Bytes(rs.N)), rs.D, rs.N))

\* rs.Decrypt(ciphertext)
RSADecrypt(rs, ciphertext) ==
    IF ~rs.generated THEN Fail("keys not generated")
    ELSE
      LET cipherInt == SetBytes(ciphertext)
      IN  IF cipherInt >= rs.N THEN decryptBlockByBlock(rs, ciphertext)
          ELSE Ok(Bytes(BigModExp(cipherInt, rs.D, rs.N)))

\* the primes generatePrime is taken to return: the key is a small one
RSAPrimes == {3, 5, 7, 1031, 1033}

\* the longest message, and the bytes messages are made of
MaxMessage == 2

RSAMessages ==
    {<<>>} \cup UNION {[1..n -> {0, 1, 2, 255}] : n \in 1..MaxMessage}

RSAInit ==
    /\ PadIdle
    /\ CtxIdle
    /\ ParIdle
    /\ CphIdle
    /\ libCall = [fn |-> "NewRSAService"]
    /\ rsa = [generated |-> FALSE]
    /\ desPool = {}
    /\ desCiphers = <<>>
    /\ applies = <<>>

\* rs.GenerateNewKey(): the key is replaced only when the pair was generated
RSAGenerateNewKey(p, q) ==
    /\ libCall.fn \in {"NewRSAService", "none"}
    /\ LET r == GenerateKeyPair(p, q)
       IN  /\ rsa' = IF r.err = "" THEN r.key ELSE rsa
           /\ libCall' = [fn |-> "GenerateNewKey", ret |-> [err |-> r.err, out |-> <<>>]]
    /\ UNCHANGED <<padVars, ctxVars, parVars, cphVars, poolVars>>

\* rs.Encrypt(message)
RSAEncryptCall(message) ==
    /\ libCall.fn \in {"NewRSAService", "none"}
    /\ libCall' = [fn |-> "Encrypt", in |-> message, ret |-> RSAEncrypt(rsa, message)]
    /\ UNCHANGED <<padVars, ctxVars, parVars, cphVars, rsa, poolVars>>

\* rs.Decrypt(ciphertext) on what Encrypt has just returned
RSADecryptBack ==
    /\ libCall.fn = "Encrypt"
    /\ libCall.ret.err = ""
    /\ libCall' = [fn |-> "DecryptBack", in |-> libCall.ret.out, src |-> libCall.in,
                   ret |-> RSADecrypt(rsa, libCall.ret.out)]
    /\ UNCHANGED <<padVars, ctxVars, parVars, cphVars, rsa, poolVars>>

\* the caller has taken the result
RSADone ==
    /\ libCall.fn \notin {"NewRSAService", "none"}
    /\ libCall' = [fn |-> "none"]
    /\ UNCHANGED <<padVars, ctxVars, parVars, cphVars, rsa, poolVars>>

RSANext ==
    \/ \E p \in RSAPrimes, q \in RSAPrimes : RSAGenerateNewKey(p, q)
    \/ \E message \in RSAMessages : RSAEncryptCall(message)
    \/ RSADecryptBack
    \/ RSADone

SpecRSA == RSAInit /\ [][RSANext]_vars

\* ------------------------------------------------------------------------
\* SpecMath: cripta.ModExp on the int64 type (math_service.go)
\* ------------------------------------------------------------------------

\* an int64 is kept as its two's complement word, least significant byte first
WordBytes == 8

\* the word of a small non-negative number
Word(n) ==
    [k \in 1..WordBytes |-> IF k > 4 THEN 0 ELSE (n \div (ByteMod ^ (k - 1))) % ByteMod] \o <<>>

\* the word of 2^k
Pow2(k) ==
    [j \in 1..WordBytes |-> IF j = (k \div 8) + 1 THEN 2 ^ (k % 8) ELSE 0] \o <<>>

\* math.MaxInt64
MaxInt64 ==
    [j \in 1..WordBytes |-> IF j = WordBytes THEN 127 ELSE 255] \o <<>>

RECURSIVE AddFrom(_, _, _, _)
AddFrom(x, y, k, carry) ==
    IF k > WordBytes THEN <<>>
    ELSE LET s == x[k] + y[k] + carry
         IN  <<s % ByteMod>> \o AddFrom(x, y, k + 1, s \div ByteMod)

\* x + y on int64: the carry out of the top byte is dropped
Add64(x, y) == AddFrom(x, y, 1, 0)

\* -x on int64
Neg64(x) == Add64([k \in 1..WordBytes |-> 255 - x[k]] \o <<>>, Word(1))

\* x - y on int64
Sub64(x, y) == Add64(x, Neg64(y))

RECURSIVE MulByteFrom(_, _, _, _)
MulByteFrom(x, b, k, carry) ==
    IF k > WordBytes THEN <<>>
    ELSE LET s == x[k] * b + carry
         IN  <<s % ByteMod>> \o MulByteFrom(x, b, k + 1, s \div ByteMod)

ShiftBytes(x, n) ==
    [k \in 1..WordBytes |-> IF k <= n THEN 0 ELSE x[k - n]] \o <<>>

RECURSIVE MulFrom(_, _, _)
MulFrom(x, y, k) ==
    IF k > WordBytes THEN Word(0)
    ELSE Add64(ShiftBytes(MulByteFrom(x, y[k], 1, 0), k - 1), MulFrom(x, y, k + 1))

\* x * y on int64: the product wraps around modulo 2^64
Mul64(x, y) == MulFrom(x, y, 1)

\* the sign bit
IsNeg(x) == x[WordBytes] >= 128

RECURSIVE LessFrom(_, _, _)
LessFrom(x, y, k) ==
    IF k = 0 THEN FALSE
    ELSE IF x[k] # y[k] THEN x[k] < y[k]
    ELSE LessFrom(x, y, k - 1)

\* x < y for two words read as magnitudes
Less(x, y) == LessFrom(x, y, WordBytes)

RECURSIVE UModBits(_, _, _, _)
\* long division over the bits i, i-1, .. 0 of the byte b
UModBits(b, m, i, r) ==
    IF i < 0 THEN r
    ELSE LET r2 == Add64(Add64(r, r), Word((b \div (2 ^ i)) % 2))
             r3 == IF Less(r2, m) THEN r2 ELSE Sub64(r2, m)
         IN  \* a word keeps its length
             IF Len(r3) # WordBytes THEN <<>>
             ELSE UModBits(b, m, i - 1, r3)

RECURSIVE UModFrom(_, _, _, _)
\* long division over the bytes k, k-1, .. 1 of x
UModFrom(x, m, k, r) ==
    IF k = 0 THEN r
    ELSE LET r2 == UModBits(x[k], m, 7, r)
         IN  IF Len(r2) # WordBytes THEN <<>>
             ELSE UModFrom(x, m, k - 1, r2)

\* the remainder of the magnitude x by m, for 0 < m <= MaxInt64
UMod(x, m) == UModFrom(x, m, WordBytes, Word(0))

\* x % m on int64, m > 0: the remainder takes the sign of x
Rem64(x, m) ==
    IF IsNeg(x) THEN Neg64(UMod(Neg64(x), m)) ELSE UMod(x, m)

RECURSIVE ModExpLoop(_, _, _, _)
ModExpLoop(result, a, b, m) ==
    IF b <= 0 THEN result
    ELSE LET r2 == IF b % 2 = 1 THEN Rem64(Mul64(result, a), m) ELSE result
             a2 == Rem64(Mul64(a, a), m)
         IN  IF Len(r2) # WordBytes \/ Len(a2) # WordBytes THEN <<>>
             ELSE ModExpLoop(r2, a2, b \div 2, m)

\* ModExp(a, b, m); the exponent is only tested and shifted right, so it is
\* kept as a number
ModExp(a, b, m) ==
    IF m = Word(1) THEN Word(0)
    ELSE ModExpLoop(Word(1), Rem64(a, m), b, m)

MaxExponent == 3

MathBases == {Word(0), Word(2), Word(3), Word(99), Pow2(32), Pow2(62), MaxInt64}

MathModuli == {Word(1), Word(2), Word(100), Word(65537), Pow2(31), Pow2(62), MaxInt64}

MathInit ==
    /\ PadIdle
    /\ CtxIdle
    /\ ParIdle
    /\ CphIdle
    /\ AuxIdle

\* a call of cripta.ModExp(a, b, m)
MathModExp(a, b, m) ==
    /\ libCall.fn = "none"
    /\ libCall' = [fn |-> "ModExp", a |-> a, b |-> b, m |-> m, ret |-> ModExp(a, b, m)]
    /\ UNCHANGED <<padVars, ctxVars, parVars, cphVars, rsa, poolVars>>

\* the caller has taken the result
MathDone ==
    /\ libCall.fn = "ModExp"
    /\ libCall' = [fn |-> "none"]
    /\ UNCHANGED <<padVars, ctxVars, parVars, cphVars, rsa, poolVars>>

MathNext ==
    \/ \E a \in MathBases, b \in 0..MaxExponent, m \in MathModuli : MathModExp(a, b, m)
    \/ MathDone

SpecMath == MathInit /\ [][MathNext]_vars

\* ------------------------------------------------------------------------
\* SpecJacobi: the Jacobi symbol on int64 and on big.Int, and the
\* Solovay-Strassen iteration that uses it (math_service.go,
\* aes_round_function.go)
\* ------------------------------------------------------------------------

\* a % n on int64 for n > 0: the remainder takes the sign of a. No step of
\* JacobiSymbol leaves the range of its arguments, so an int64 is kept as a
\* number here
Rem(a, n) == IF a < 0 THEN 0 - ((0 - a) % n) ELSE a % n

RECURSIVE JacobiTwos(_, _, _)
\* the loop "for a%2 == 0": a and s after it
JacobiTwos(a, n, s) ==
    IF a % 2 # 0 THEN [a |-> a, s |-> s]
    ELSE JacobiTwos(a \div 2, n, IF n % 8 = 3 \/ n % 8 = 5 THEN 0 - s ELSE s)

RECURSIVE JacobiFrom(_, _)
\* JacobiSymbol from "if a == 0" on, a already reduced modulo n
JacobiFrom(a, n) ==
    IF a = 0 THEN 0
    ELSE IF a = 1 THEN 1
    ELSE Only({IF odd.a = 1 THEN odd.s
               ELSE (IF odd.a % 4 = 3 /\ n % 4 = 3 THEN 0 - odd.s ELSE odd.s)
                      * (IF odd.a % 2 = 0 THEN 0
                         ELSE JacobiFrom(Rem(n, odd.a), odd.a)) :
               odd \in {JacobiTwos(a, n, 1)}})

\* JacobiSymbol(a, n)
JacobiSymbol(a, n) ==
    IF n <= 0 \/ n % 2 = 0 THEN 0
    ELSE JacobiFrom(IF Rem(a, n) < 0 THEN Rem(a, n) + n ELSE Rem(a, n), n)

RECURSIVE TrailingZeros(_)
\* the loop "for temp.Bit(0) == 0" over a copy of a > 0
TrailingZeros(temp) ==
    IF temp % 2 # 0 THEN 0 ELSE 1 + TrailingZeros(temp \div 2)

RECURSIVE BigJacobiLoop(_, _, _)
\* the loop "for a.Sign() > 0" and the return after it; a itself keeps its
\* factors of two, only the copy temp is shifted
BigJacobiLoop(a, n, result) ==
    IF a <= 0 THEN (IF n = 1 THEN result ELSE 0)
    ELSE
      LET twos == IF TrailingZeros(a) % 2 = 1 /\ (n % 8 = 3 \/ n % 8 = 5)
                    THEN 0 - result ELSE result
          reciprocity == IF a % 4 = 3 /\ n % 4 = 3 THEN 0 - twos ELSE twos
      IN  BigJacobiLoop(n % a, a, reciprocity)

\* BigJacobiSymbol(a, n); a.Mod(a, n) is never negative, so the branch for a
\* negative a is never taken
BigJacobiSymbol(a, n) ==
    IF n <= 0 \/ n % 2 = 0 THEN 0
    ELSE IF a % n = 0 THEN 0
    ELSE BigJacobiLoop(a % n, n, 1)

\* the testIteration of NewSolovayStrassenTest on n > 2 and the base a
SolovayStrassenIteration(n, a) ==
    IF BigGCD(a, n) # 1 THEN FALSE
    ELSE IF BigJacobiSymbol(a, n) = 0 THEN FALSE
    ELSE BigModExp(a, (n - 1) \div 2, n) = BigJacobiSymbol(a, n) % n

\* the largest argument of the calls
MaxJacobi == 21

\* the first arguments: a few negative ones, zero, and the positive ones
JacobiTops == (0 - 3)..MaxJacobi

\* the second arguments: negative, zero, even and odd
JacobiBottoms == (0 - 1)..MaxJacobi

JacInit ==
    /\ PadIdle
    /\ CtxIdle
    /\ ParIdle
    /\ CphIdle
    /\ AuxIdle

\* a call of cripta.JacobiSymbol(a, n)
JacJacobiSymbol(a, n) ==
    /\ libCall.fn = "none"
    /\ libCall' = [fn |-> "JacobiSymbol", a |-> a, n |-> n, ret |-> JacobiSymbol(a, n)]
    /\ UNCHANGED <<padVars, ctxVars, parVars, cphVars, rsa, poolVars>>

\* a call of cripta.BigJacobiSymbol(a, n)
JacBigJacobiSymbol(a, n) ==
    /\ libCall.fn = "none"
    /\ libCall' = [fn |-> "BigJacobiSymbol", a |-> a, n |-> n,
                   ret |-> BigJacobiSymbol(a, n)]
    /\ UNCHANGED <<padVars, ctxVars, parVars, cphVars, rsa, poolVars>>

\* one iteration of the Solovay-Strassen test on an odd n > 2 with the base a
JacTestIteration(n, a) ==
    /\ libCall.fn = "none"
    /\ n > 2
    /\ n % 2 = 1
    /\ a >= 0
    /\ libCall' = [fn |-> "testIteration", a |-> a, n |-> n,
                   accepted |-> SolovayStrassenIteration(n, a)]
    /\ UNCHANGED <<padVars, ctxVars, parVars, cphVars, rsa, poolVars>>

\* the caller has taken the result
JacDone ==
    /\ libCall.fn \in {"JacobiSymbol", "BigJacobiSymbol", "testIteration"}
    /\ libCall' = [fn |-> "none"]
    /\ UNCHANGED <<padVars, ctxVars, parVars, cphVars, rsa, poolVars>>

JacNext ==
    \/ \E a \in JacobiTops, n \in JacobiBottoms : JacJacobiSymbol(a, n)
    \/ \E a \in JacobiTops, n \in JacobiBottoms : JacBigJacobiSymbol(a, n)
    \/ \E n \in JacobiBottoms, a \in JacobiTops : JacTestIteration(n, a)
    \/ JacDone

SpecJacobi == JacInit /\ [][JacNext]_vars

\* ------------------------------------------------------------------------
\* SpecPool: concurrent DEALRoundFunction.Apply calls on one round function
\* (deal_round_function.go)
\* ------------------------------------------------------------------------

\* the goroutines that call Apply on the shared round function
MaxAppliers == 2

Appliers == 1..MaxAppliers

\* the round keys and half blocks of the calls: 8 bytes, and a short one
PoolKeys == {Sample(1, 8), Sample(2, 8), Sample(3, 7)}

PoolBlocks == {Sample(4, 8)}

\* what des.EncryptBlock returns, and Apply makes of it, for each key an
\* instance of the pool can be set to (none for a new one) and each block
PoolOutputs ==
    [key \in {k \in PoolKeys : Len(k) = 8} \cup {<<>>}, block \in PoolBlocks |->
        DEALOutput(IF key = <<>> THEN DESEncryptBlock(NewDESCipher, block)
                   ELSE DESEncryptKeyed(DESSetKey(NewDESCipher, key), block,
                                        "failed to set round key"))] @@ <<>>

NoApply == [pc |-> "idle"]

\* a Get that hands out an instance of the pool and leaves it there
PoolGetShared(pool, ciphers) ==
    IF pool # {}
      THEN {[des |-> d, pool |-> pool, ciphers |-> ciphers] : d \in pool}
      ELSE {[des |-> Len(ciphers) + 1, pool |-> pool,
             ciphers |-> Append(ciphers, <<>>)]}

\* drf.desPool.Get(): an instance of the pool, taken out of it, or the
\* instance New makes when the pool is empty. The outcomes: the instance,
\* the pool and the instances after the call
PoolGet(pool, ciphers) ==
    IF pool # {}
      THEN {[des |-> d, pool |-> pool \ {d}, ciphers |-> ciphers] : d \in pool}
      ELSE {[des |-> Len(ciphers) + 1, pool |-> pool,
             ciphers |-> Append(ciphers, <<>>)]}

\* drf.desPool.Put(des)
PoolPut(pool, des) == pool \cup {des}

\* NewDEALRoundFunction(): one DES instance, not keyed, is put in the pool
PoolInit ==
    /\ PadIdle
    /\ CtxIdle
    /\ ParIdle
    /\ CphIdle
    /\ libCall = [fn |-> "none"]
    /\ rsa = [generated |-> FALSE]
    /\ desCiphers = <<<<>>>>
    /\ desPool = PoolPut({}, 1)
    /\ applies = [w \in Appliers |-> NoApply]

\* Apply(inputBlock, roundKey) up to the pool: the arguments are checked
ApplyCall(w, inputBlock, roundKey) ==
    /\ applies[w].pc = "idle"
    /\ applies' = [applies EXCEPT ![w] =
          IF Len(inputBlock) # 8
            THEN [pc |-> "returned", ret |-> Fail("DEAL round function input must be 8 bytes")]
          ELSE IF Len(roundKey) # 8
            THEN [pc |-> "returned", ret |-> Fail("DEAL round key must be 8 bytes")]
          ELSE [pc |-> "get", inputBlock |-> inputBlock, roundKey |-> roundKey]]
    /\ UNCHANGED <<padVars, ctxVars, parVars, cphVars, libCall, rsa, desPool, desCiphers>>

\* des := drf.desPool.Get().(*DESCipher)
ApplyGet(w) ==
    /\ applies[w].pc = "get"
    /\ \E g \in PoolGet(desPool, desCiphers) :
         /\ desPool' = g.pool
         /\ desCiphers' = g.ciphers
         /\ applies' = [applies EXCEPT ![w] =
               [pc |-> "setkey", inputBlock |-> applies[w].inputBlock,
                roundKey |-> applies[w].roundKey, des |-> g.des]]
    /\ UNCHANGED <<padVars, ctxVars, parVars, cphVars, libCall, rsa>>

\* des.SetKey(roundKey): the instance holds the round keys of roundKey
ApplySetKey(w) ==
    /\ applies[w].pc = "setkey"
    /\ desCiphers' = [desCiphers EXCEPT ![applies[w].des] = applies[w].roundKey]
    /\ applies' = [applies EXCEPT ![w].pc = "encrypt"]
    /\ UNCHANGED <<padVars, ctxVars, parVars, cphVars, libCall, rsa, desPool>>

\* des.EncryptBlock(inputBlock): the block is encrypted under the key the
\* instance is set to at this moment
ApplyEncryptBlock(w) ==
    /\ applies[w].pc = "encrypt"
    /\ applies' = [applies EXCEPT ![w] =
          [pc |-> "put", inputBlock |-> applies[w].inputBlock,
           roundKey |-> applies[w].roundKey, des |-> applies[w].des,
           key |-> desCiphers[applies[w].des]]]
    /\ UNCHANGED <<padVars, ctxVars, parVars, cphVars, libCall, rsa, desPool, desCiphers>>

\* Apply returns the DES output; the deferred Put gives the instance back
ApplyReturn(w) ==
    /\ applies[w].pc = "put"
    /\ desPool' = PoolPut(desPool, applies[w].des)
    /\ applies' = [applies EXCEPT ![w] =
          [pc |-> "returned", inputBlock |-> applies[w].inputBlock,
           roundKey |-> applies[w].roundKey,
           ret |-> PoolOutputs[applies[w].key, applies[w].inputBlock]]]
    /\ UNCHANGED <<padVars, ctxVars, parVars, cphVars, libCall, rsa, desCiphers>>

\* the caller has taken the result
ApplyDone(w) ==
    /\ applies[w].pc = "returned"
    /\ applies' = [applies EXCEPT ![w] = NoApply]
    /\ UNCHANGED <<padVars, ctxVars, parVars, cphVars, libCall, rsa, desPool, desCiphers>>

PoolNext ==
    \/ \E w \in Appliers, inputBlock \in PoolBlocks, roundKey \in PoolKeys :
         ApplyCall(w, inputBlock, roundKey)
    \/ \E w \in Appliers : ApplyGet(w)
    \/ \E w \in Appliers : ApplySetKey(w)
    \/ \E w \in Appliers : ApplyEncryptBlock(w)
    \/ \E w \in Appliers : ApplyReturn(w)
    \/ \E w \in Appliers : ApplyDone(w)

SpecPool == PoolInit /\ [][PoolNext]_vars

\* ------------------------------------------------------------------------
\* The Feistel driver under caller-supplied interfaces (feistel_network.go)
\* ------------------------------------------------------------------------

\* largest round count the driver is configured with
MaxRounds == 3

\* An IKeySchedule double for a driver of the given round count: round keys
\* of two bytes drawn from the key.  It returns an error for a key that
\* begins with 0, one round key too few for a key that begins with 255 and
\* one too many for a key that begins with 254.
StubGenerateRoundKeys(masterKey, roundsCount) ==
    IF Len(masterKey) = 0 \/ masterKey[1] = 0 THEN Fail("schedule failure")
    ELSE LET count == CASE masterKey[1] = 255 -> roundsCount - 1
                        [] masterKey[1] = 254 -> roundsCount + 1
                        [] OTHER -> roundsCount
         IN  Ok([r \in 1..count |->
                   [j \in 1..2 |->
                      Uint8(masterKey[((r + j) % Len(masterKey)) + 1] + 17 * r + j)]])

\* Two IRoundFunction doubles, deterministic, with an output as long as the
\* input: "square" is keyed and not invertible, "const" ignores its input.
StubApply(which, inputBlock, roundKey) ==
    IF Len(roundKey) = 0 THEN Fail("round key cannot be empty")
    ELSE Ok([j \in 1..Len(inputBlock) |->
               IF which = "const" THEN roundKey[1]
               ELSE Uint8(inputBlock[j] * inputBlock[j]
                          + 3 * inputBlock[(j % Len(inputBlock)) + 1]
                          + roundKey[((j - 1) % Len(roundKey)) + 1])])

\* the driver d.feistel with the doubles behind its two interface fields
StubFeistel(d) ==
    Bound(d.feistel,
          [GenerateRoundKeys |->
              [masterKey \in Seq(Byte) |->
                  StubGenerateRoundKeys(masterKey, d.feistel.roundsCount)]],
          [Apply |-> [inputBlock \in Seq(Byte), roundKey \in Seq(Byte) |->
                        StubApply(d.which, inputBlock, roundKey)]])

\* the drivers NewFeistelNetwork returns for block sizes 0 (the default of 8
\* bytes), 2 and 4 and round counts 0 (the default of 16) .. MaxRounds
Drivers ==
    {[kind |-> "Driver", which |-> which,
      feistel |-> NewFeistelNetwork("StubKeySchedule", "StubRoundFunction",
                                    blockSize, roundsCount).out] :
        which \in {"square", "const"}, blockSize \in {0, 2, 4},
        roundsCount \in 0..MaxRounds}

\* keys: good ones, an empty one, and the ones the schedule double singles out
DriverKeys ==
    {Sample(1, 3), Sample(2, 2), <<>>, <<0, 9>>, <<255, 7, 1>>, <<254, 3>>}

\* blocks of the driver's size, and one that is too short
DriverBlocks(d) ==
    {Sample(n + 3, d.feistel.blockSize) : n \in 1..MaxBlocks}
    \cup {GenData(0, d.feistel.blockSize), GenData(2, d.feistel.blockSize),
          Sample(2, d.feistel.blockSize - 1)}

DriverInit ==
    /\ PadIdle
    /\ CtxIdle
    /\ ParIdle
    /\ AuxIdle
    /\ instance \in Drivers
    /\ keyHistory = "none"
    /\ blockOp = [op |-> "none"]

\* fn.SetKey(key); keyHistory tells how the last SetKey call ended, and
\* before holds the driver the call found
DriverSetKey(key) ==
    /\ blockOp.op = "none"
    /\ \E r \in {FeistelSetKey(StubFeistel(instance), key)} :
         /\ instance' = [instance EXCEPT !.feistel = Unbound(r.fn, instance.feistel)]
         /\ keyHistory' = IF r.err = "" THEN "ok" ELSE "failed"
         /\ blockOp' = [op |-> "setkey", in |-> key, before |-> instance.feistel,
                        res |-> [err |-> r.err, out |-> <<>>]]
    /\ UNCHANGED <<padVars, ctxVars, parVars, auxVars>>

\* fn.EncryptBlock(block)
DriverEncryptBlock(block) ==
    /\ blockOp.op = "none"
    /\ blockOp' = [op |-> "enc", in |-> block,
                   res |-> FeistelEncryptBlock(StubFeistel(instance), block)]
    /\ UNCHANGED <<instance, keyHistory, padVars, ctxVars, parVars, auxVars>>

\* fn.DecryptBlock(block)
DriverDecryptBlock(block) ==
    /\ blockOp.op = "none"
    /\ blockOp' = [op |-> "dec", in |-> block,
                   res |-> FeistelDecryptBlock(StubFeistel(instance), block)]
    /\ UNCHANGED <<instance, keyHistory, padVars, ctxVars, parVars, auxVars>>

\* fn.DecryptBlock on the block the preceding EncryptBlock returned, and
\* fn.EncryptBlock on the block the preceding DecryptBlock returned; src is
\* the block that call was given
DriverBack ==
    /\ blockOp.op \in {"enc", "dec"}
    /\ blockOp.res.err = ""
    /\ blockOp' = [op |-> IF blockOp.op = "enc" THEN "encdec" ELSE "decenc",
                   in |-> blockOp.res.out, src |-> blockOp.in,
                   res |-> IF blockOp.op = "enc"
                             THEN FeistelDecryptBlock(StubFeistel(instance), blockOp.res.out)
                             ELSE FeistelEncryptBlock(StubFeistel(instance), blockOp.res.out)]
    /\ UNCHANGED <<instance, keyHistory, padVars, ctxVars, parVars, auxVars>>

\* the caller has taken the result
DriverDone ==
    /\ blockOp.op # "none"
    /\ blockOp' = [op |-> "none"]
    /\ UNCHANGED <<instance, keyHistory, padVars, ctxVars, parVars, auxVars>>

DriverNext ==
    \/ \E key \in DriverKeys : DriverSetKey(key)
    \/ \E block \in DriverBlocks(instance) : DriverEncryptBlock(block)
    \/ \E block \in DriverBlocks(instance) : DriverDecryptBlock(block)
    \/ DriverBack
    \/ DriverDone

SpecDriver == DriverInit /\ [][DriverNext]_vars

\* ------------------------------------------------------------------------
\* The DES key schedule as a library (des_key_schedule.go)
\* ------------------------------------------------------------------------

\* number of sample keys and of sample halves the schedule is called with
MaxScheduleKeys == 12
MaxHalves == 40

\* master keys: sample keys, the extreme ones and one of a wrong length
ScheduleKeys ==
    {Sample(n, 8) : n \in 1..MaxScheduleKeys}
    \cup {GenData(0, 8), GenData(2, 8), <<19, 52, 87, 121, 155, 188, 223, 241>>,
          Sample(1, 7)}

\* arguments of leftShift28: four bytes, and one slice that is too short
ScheduleHalves ==
    {Sample(n, 4) : n \in 1..MaxHalves} \cup {GenData(2, 4), Sample(1, 3)}

DksInit ==
    /\ PadIdle
    /\ CtxIdle
    /\ ParIdle
    /\ CphIdle
    /\ AuxIdle

\* a call of dks.GenerateRoundKeys(masterKey)
DksGenerateRoundKeys(masterKey) ==
    /\ libCall.fn = "none"
    /\ libCall' = [fn |-> "GenerateRoundKeys", key |-> masterKey,
                   ret |-> DESGenerateRoundKeys(masterKey)]
    /\ UNCHANGED <<padVars, ctxVars, parVars, cphVars, rsa, poolVars>>

\* a call of dks.leftShift28(data, shifts)
DksLeftShift28(data, shifts) ==
    /\ libCall.fn = "none"
    /\ libCall' = [fn |-> "leftShift28", data |-> data, shifts |-> shifts,
                   ret |-> leftShift28(data, shifts)]
    /\ UNCHANGED <<padVars, ctxVars, parVars, cphVars, rsa, poolVars>>

\* the caller has taken the result
DksDone ==
    /\ libCall.fn # "none"
    /\ libCall' = [fn |-> "none"]
    /\ UNCHANGED <<padVars, ctxVars, parVars, cphVars, rsa, poolVars>>

DksNext ==
    \/ \E masterKey \in ScheduleKeys : DksGenerateRoundKeys(masterKey)
    \/ \E data \in ScheduleHalves, shifts \in {1, 2} : DksLeftShift28(data, shifts)
    \/ DksDone

SpecDESKeys == DksInit /\ [][DksNext]_vars

\* ------------------------------------------------------------------------
\* The DEAL key schedule as a library (the DEAL key schedule and cipher)
\* ------------------------------------------------------------------------

\* number of sample keys of each length
MaxDEALKeys == 34

\* the key lengths NewDEALCipher is called with: the three it accepts, and
\* three it does not
DEALKeyLengths == {0, 8, 16, 20, 24, 32}

\* master keys for a schedule of the given key length: sample keys of that
\* length, and one that is a block longer
DEALKeys(keyLength) ==
    {Sample(n, keyLength) : n \in 1..MaxDEALKeys} \cup {Sample(1, keyLength + 8)}

DealInit ==
    /\ PadIdle
    /\ CtxIdle
    /\ ParIdle
    /\ CphIdle
    /\ AuxIdle

\* a call of NewDEALCipher(keyLength)
DealNewCipher(keyLength) ==
    /\ libCall.fn = "none"
    /\ libCall' = [fn |-> "NewDEALCipher", keyLength |-> keyLength,
                   ret |-> NewDEALCipher(keyLength)]
    /\ UNCHANGED <<padVars, ctxVars, parVars, cphVars, rsa, poolVars>>

\* a call of GenerateRoundKeys(masterKey) on the key schedule of the cipher
\* that NewDEALCipher has just returned
DealGenerateRoundKeys ==
    /\ libCall.fn = "NewDEALCipher"
    /\ libCall.ret.err = ""
    /\ \E masterKey \in DEALKeys(libCall.keyLength) :
         libCall' = [fn |-> "GenerateRoundKeys", keyLength |-> libCall.keyLength,
                     key |-> masterKey,
                     roundsCount |-> libCall.ret.out.feistel.roundsCount,
                     ret |-> DEALGenerateRoundKeys(libCall.ret.out.feistel.keySchedule,
                                                   masterKey)]
    /\ UNCHANGED <<padVars, ctxVars, parVars, cphVars, rsa, poolVars>>

\* the caller has taken the result
DealDone ==
    /\ libCall.fn # "none"
    /\ libCall' = [fn |-> "none"]
    /\ UNCHANGED <<padVars, ctxVars, parVars, cphVars, rsa, poolVars>>

DealNext ==
    \/ \E keyLength \in DEALKeyLengths : DealNewCipher(keyLength)
    \/ DealGenerateRoundKeys
    \/ DealDone

SpecDEALKeys == DealInit /\ [][DealNext]_vars

\* ------------------------------------------------------------------------
\* Claims
\* ------------------------------------------------------------------------

\* C5: with Zeros padding, removing the padding of applyPadding(x) strips the
\* added zero bytes: for every x that is empty or ends in a non-zero byte,
\* removePadding(applyPadding(x)) = x.
C5_ZerosPaddingStripped ==
    (/\ padPhase = "removed"
     /\ padPM = PaddingModeZeros
     /\ (Len(padData) = 0 \/ padData[Len(padData)] # 0))
    => unpadOut = Ok(padData)

\* C6: for a block size b in 1..255 applyPadding appends exactly
\* p = b - (n mod b) bytes, 1 <= p <= b (p = b on block-aligned data), to the
\* unchanged data, so the padded length is a positive multiple of b; with
\* PKCS7 every appended byte equals p, and removePadding gives back the data.
C6_PaddingLaw ==
    (padPhase \in {"padded", "removed"} /\ padPM \in PaddingModes) =>
        LET n == Len(padData)
            p == padBS - (n % padBS)
            out == padOut.out
        IN  /\ padOut.err = ""
            /\ 1 <= p /\ p <= padBS
            /\ (n % padBS = 0 => p = padBS)
            /\ Len(out) = n + p
            /\ Len(out) > 0 /\ Len(out) % padBS = 0
            /\ SubSeq(out, 1, n) = padData
            /\ (padPM = PaddingModePKCS7 =>
                    /\ \A i \in (n + 1)..(n + p) : out[i] = p
                    /\ out[Len(out)] = p
                    /\ (padPhase = "removed" => unpadOut = Ok(padData)))

\* C6 witness: PKCS7 padding of non-empty block-aligned data (a full extra
\* block) has been applied and removed.
C6_Witness ==
    /\ padPhase = "removed"
    /\ padPM = PaddingModePKCS7
    /\ padBS > 1
    /\ Len(padData) > 0
    /\ Len(padData) % padBS = 0
    /\ Len(padOut.out) = Len(padData) + padBS

\* the context is configured as the claims about well-configured contexts
\* assume: a defined mode, a defined padding, an IV of blockSize bytes
WellConfigured ==
    /\ context.mode \in CipherModes
    /\ context.paddingMode \in PaddingModes
    /\ Len(context.iv) = context.blockSize

\* C1: for every mode, every padding, every key and every IV of blockSize
\* bytes, Decrypt(Encrypt(x)) = x for every x of 0 .. 2*blockSize+1 bytes.
C1_RoundTrip ==
    (lastOp.op = "dec" /\ lastOp.rt /\ WellConfigured)
    => lastOp.res = Ok(lastOp.src)

\* C4: in every reachable state of a context, a mode other than ECB has an
\* IV of exactly blockSize bytes (any other IV having been rejected).
C4_IVLength ==
    context.mode # CipherModeECB => Len(context.iv) = context.blockSize

\* C7: Decrypt returns an error whenever the ciphertext length is not a
\* multiple of the stride (blockSize, or 2*blockSize for RandomDelta).
C7_PartialBlockRejected ==
    (/\ lastOp.op = "dec"
     /\ WellConfigured
     /\ Len(lastOp.in) % decryptStride(context) # 0)
    => lastOp.res.err # ""

\* C8: with a mode or a padding that is not one of the defined values,
\* Encrypt and Decrypt both return an error for every input.
C8_UnknownRejected ==
    (/\ lastOp.op \in {"enc", "dec"}
     /\ (context.mode \notin CipherModes \/ context.paddingMode \notin PaddingModes))
    => lastOp.res.err # ""

\* the i-th (0-based) run of n bytes of s
Chunk(s, i, n) == Slice(s, i * n, (i + 1) * n)

\* C10: in RandomDelta mode Encrypt of n bytes returns 2*(n+p) bytes laid out
\* as pairs (Delta_i, E(B_i xor Delta_i)), and Decrypt of them returns the
\* plaintext, for every choice of the masks.
C10_RandomDelta ==
    (/\ context.mode = CipherModeRandomDelta
     /\ context.paddingMode \in PaddingModes)
    =>
    /\ lastOp.op = "enc" =>
         LET bs == context.blockSize
             n == Len(lastOp.in)
             p == bs - (n % bs)
             out == lastOp.res.out
         IN  /\ lastOp.res.err = ""
             /\ Len(out) = 2 * (n + p)
             /\ \E seed \in RandSeeds :
                  LET padded == applyPadding(lastOp.in, bs, context.paddingMode,
                                             seed).out
                  IN  \A i \in 0..(((n + p) \div bs) - 1) :
                        LET delta == Chunk(out, 2 * i, bs)
                        IN  Chunk(out, 2 * i + 1, bs) =
                              AtWork(context).cipher.EncryptBlock[
                                  xorBlocks(Chunk(padded, i, bs), delta)].out
    /\ (lastOp.op = "dec" /\ lastOp.rt) => lastOp.res = Ok(lastOp.src)

\* what the sequential path returns for the input of the parallel call
SequentialReturn ==
    IF parCall.op = "enc" THEN Encrypt(AtWork(context), parCall.in, FALSE, 0, 1)
    ELSE Decrypt(AtWork(context), parCall.in, FALSE, 1)

\* C2: in ECB and CTR with a deterministic padding, Encrypt(x, true) and
\* Decrypt(c, true) return what Encrypt(x, false) and Decrypt(c, false)
\* return, for every input of any length, every worker count and every
\* interleaving of the workers.
C2_ParallelEqualsSequential ==
    parPC = "returned" =>
        /\ (parRes.ret.err = "") = (SequentialReturn.err = "")
        /\ parRes.ret.out = SequentialReturn.out

\* what the worker owning block i of the call's data computes for it
BlockResult(i) ==
    IF parCall.kind = "ctr"
      THEN ctrBlock(AtWork(context), parCall.data, i,
                    incrementTimes(MakeCopy(Len(context.iv), context.iv), i))
      ELSE ecbBlock(AtWork(context), parCall.data, i, parCall.kind = "ecbdec")

\* the blocks of the call's data
CallBlocks == 0..((Len(parCall.data) \div context.blockSize) - 1)

\* C9: when a parallel ECB or CTR function returns, then if the primitive
\* fails on some block it returns no output and the first error sent on the
\* error channel; if it fails on no block it returns no error and the full
\* output, every block computed.
C9_ErrorPropagation ==
    parPC = "returned" =>
        IF \E i \in CallBlocks : BlockResult(i).err # ""
          THEN /\ parRes.raw.err # ""
               /\ parRes.raw.out = <<>>
               /\ Len(errors) > 0
               /\ parRes.cause = <<Head(errors)>>
          ELSE /\ parRes.raw.err = ""
               /\ Len(parRes.raw.out) = Len(parCall.data)
               /\ \A i \in CallBlocks :
                    Chunk(parRes.raw.out, i, context.blockSize) = BlockResult(i).out

\* C3: on a DES, DEAL or Rijndael instance, and on the Feistel driver, as
\* long as no SetKey call has succeeded every EncryptBlock and DecryptBlock
\* call returns an error and no block, whatever the block; so a call that
\* succeeds comes after a successful SetKey.
C3_KeyRequired ==
    blockOp.op \in {"enc", "dec"} =>
        /\ keyHistory # "ok" =>
             /\ blockOp.res.err \notin {"", "panic"}
             /\ blockOp.res.out = <<>>
        /\ blockOp.res.err = "" => keyHistory = "ok"

\* a right-sized block is refused after a SetKey call that failed
C3_Witness ==
    /\ blockOp.op = "enc"
    /\ keyHistory = "failed"
    /\ Len(blockOp.in) = CphBlockSize(instance)
    /\ blockOp.res.err # ""
    /\ blockOp.res.out = <<>>

\* C11: for every block size, key size and modulus NewRijndaelCipher accepts,
\* every key and every block x, DecryptBlock(EncryptBlock(x)) = x.
C11_RijndaelRoundTrip ==
    blockOp.op = "decback" => blockOp.res = Ok(blockOp.src)

\* the byte permutation test: every byte is the image of exactly one byte
Bijection(box) ==
    \A v \in Byte : Cardinality({i \in Byte : box[i + 1] = v}) = 1

\* C12: with modulus 0x1B the derived S-box has sBox[0x00] = 0x63 and
\* sBox[0x53] = 0xED, is a bijection on the bytes, and invSBox is its inverse:
\* invSBox[sBox[i]] = i for every byte i.
C12_SBox ==
    (instance.kind = "Rijndael" /\ instance.modulus = 27) =>
        /\ instance.sBox[1] = 99
        /\ instance.sBox[83 + 1] = 237
        /\ Bijection(instance.sBox)
        /\ \A i \in Byte : instance.invSBox[instance.sBox[i + 1] + 1] = i

\* C12 witness: an instance over 0x1B has encrypted a block with its S-box
\* and decrypted it back with the inverse one
C12_Witness ==
    /\ instance.kind = "Rijndael"
    /\ instance.modulus = 27
    /\ blockOp.op = "decback"
    /\ blockOp.res = Ok(blockOp.src)

\* C13: for every modulus p that GetAllIrreduciblePolynomials lists (every p
\* with IsIrreducible(p)) and every a in 1..255, Inverse(a, p) succeeds and
\* Multiply(a, Inverse(a, p), p) = 1.
C13_ListedModuliInvert ==
    (libCall.fn = "Inverse" /\ libCall.listed /\ libCall.a # 0) =>
        /\ libCall.ret.err = ""
        /\ libCall.product = 1

\* C14: for an RSAService holding a generated key pair, Decrypt(Encrypt(m))
\* = m for every message m, leading zero bytes included.
C14_RSARoundTrip ==
    (libCall.fn = "DecryptBack" /\ rsa.generated) => libCall.ret = Ok(libCall.src)

\* (x + y) mod m for x, y < m <= MaxInt64, without loss of a carry
AddMod(x, y, m) ==
    LET s == Add64(x, y)
    IN  IF Less(s, m) THEN s ELSE Sub64(s, m)

RECURSIVE MulModBits(_, _, _, _, _)
MulModBits(x, b, m, i, r) ==
    IF i < 0 THEN r
    ELSE LET r2 == AddMod(r, r, m)
             r3 == IF (b \div (2 ^ i)) % 2 = 1 THEN AddMod(r2, x, m) ELSE r2
         IN  IF Len(r3) # WordBytes THEN <<>>
             ELSE MulModBits(x, b, m, i - 1, r3)

RECURSIVE MulModFrom(_, _, _, _, _)
MulModFrom(x, y, m, k, r) ==
    IF k = 0 THEN r
    ELSE LET r2 == MulModBits(x, y[k], m, 7, r)
         IN  IF Len(r2) # WordBytes THEN <<>>
             ELSE MulModFrom(x, y, m, k - 1, r2)

\* (x * y) mod m for x, y < m, by doubling and adding
MulMod(x, y, m) == MulModFrom(x, y, m, WordBytes, Word(0))

RECURSIVE PowMod(_, _, _)
\* a^b mod m
PowMod(a, b, m) ==
    IF b = 0 THEN UMod(Word(1), m)
    ELSE LET p == PowMod(a, b - 1, m)
         IN  IF Len(p) # WordBytes THEN <<>>
             ELSE MulMod(p, UMod(a, m), m)

\* C15: ModExp(a, b, m) returns a^b mod m for all non-negative a, b and
\* every modulus m >= 1 of the int64 type
C15_ModExpAllModuli ==
    libCall.fn = "ModExp" => libCall.ret = PowMod(libCall.a, libCall.b, libCall.m)

\* ceil(n / d)
CeilDiv(n, d) == CHOOSE k \in 0..n : k * d >= n /\ (k = 0 \/ (k - 1) * d < n)

\* the blocks of [t*k, min((t+1)*k, numBlocks)) with k = ceil(numBlocks/N)
OwnBlocks(t) ==
    LET k == CeilDiv(Len(parCall.data) \div context.blockSize, parCall.numThreads)
    IN  {i \in CallBlocks : t * k <= i /\ i < (t + 1) * k}

\* the launched workers hold non-empty ranges, and every block has one owner
RangesPartition ==
    (parPC \in {"running", "returned"} /\ parCall.numThreads > 0) =>
        /\ \A t \in DOMAIN workers :
             /\ OwnBlocks(t) # {}
             /\ \A i \in CallBlocks : i \in OwnBlocks(t) <=>
                    (t * CeilDiv(Cardinality(CallBlocks), parCall.numThreads) <= i
                       /\ i < workers[t].end)
             /\ \A i \in workers[t].i..(workers[t].end - 1) : i \in OwnBlocks(t)
        /\ \A i \in CallBlocks :
             Cardinality({t \in DOMAIN workers : i \in OwnBlocks(t)}) = 1

\* a step that changes the output buffer is the step of one worker at a
\* block i of its own, and changes bytes of that block only
OwnWrites ==
    (parPC = "running" /\ parPC' = "running" /\ parOut' # parOut) =>
        \E t \in DOMAIN workers :
            /\ workers[t].i \in OwnBlocks(t)
            /\ workers'[t].i = workers[t].i + 1
            /\ \A u \in DOMAIN workers \ {t} : workers'[u] = workers[u]
            /\ Len(parOut') = Len(parOut)
            /\ \A p \in 1..Len(parOut) : parOut'[p] # parOut[p] =>
                   /\ p > workers[t].i * context.blockSize
                   /\ p <= (workers[t].i + 1) * context.blockSize

\* block i is reached by its worker and computed without an error
Computed(i) ==
    \E t \in DOMAIN workers :
        /\ i \in OwnBlocks(t)
        /\ \A j \in OwnBlocks(t) : j <= i => BlockResult(j).err = ""

\* the buffer and the value returned are fixed by the call alone
FinalOutput ==
    (parPC = "returned" /\ parRes.raw.err # "panic") =>
        /\ \A i \in CallBlocks :
             Chunk(parOut, i, context.blockSize) =
                 IF Computed(i) THEN BlockResult(i).out
                 ELSE Zeros(context.blockSize)
        /\ parRes.raw = IF \A i \in CallBlocks : Computed(i)
                          THEN Ok(parOut) ELSE Fail("worker failed")

\* C16: in parallel ECB and CTR over numBlocks blocks with N workers, the
\* launched workers hold the contiguous ranges [t*k, min((t+1)*k, numBlocks))
\* with k = ceil(numBlocks/N), which are non-empty, pairwise disjoint and
\* cover every block exactly once; each worker writes only the output bytes
\* of its own blocks at offset i*blockSize, so the final output is the same
\* in every interleaving of the workers.
C16_WorkerRanges ==
    /\ [](RangesPartition /\ FinalOutput)
    /\ [][OwnWrites]_vars

C16_Witness ==
    /\ parPC = "returned"
    /\ parCall.kind = "ctr"
    /\ Cardinality(DOMAIN workers) = 2
    /\ Cardinality(CallBlocks) = 3
    /\ parRes.raw.err = ""

\* the invocations that hold a DES instance: between their Get and their Put
Holding(w) == applies[w].pc \in {"setkey", "encrypt", "put"}

\* no two invocations hold one instance, no held instance is in the pool,
\* and the block is encrypted under the invocation's own round key
PoolExclusive ==
    /\ \A w \in Appliers : Holding(w) =>
          /\ applies[w].des \notin desPool
          /\ \A v \in Appliers \ {w} : Holding(v) => applies[v].des # applies[w].des
    /\ \A w \in Appliers :
          /\ applies[w].pc = "put" => applies[w].key = applies[w].roundKey
          /\ (applies[w].pc = "returned" /\ applies[w].ret.err = "") =>
                applies[w].ret = PoolOutputs[applies[w].roundKey, applies[w].inputBlock]

\* a Get on the empty pool returns at once with an instance nobody has
PoolGrows ==
    \A w \in Appliers :
        (applies[w].pc = "get" /\ applies'[w].pc # "get" /\ desPool = {}) =>
            /\ Len(desCiphers') = Len(desCiphers) + 1
            /\ applies'[w].des = Len(desCiphers')
            /\ desCiphers'[applies'[w].des] = <<>>

\* C17: when several workers run DEAL EncryptBlock/DecryptBlock concurrently
\* on one shared DEAL cipher, each DEALRoundFunction.Apply invocation holds
\* a DES instance that no other concurrent invocation holds between its
\* pool Get and Put, so the round key installed by its SetKey is the one
\* used by its own EncryptBlock; the pool creates a new instance when it is
\* empty instead of blocking or sharing.
C17_PoolInstances ==
    /\ [](PoolExclusive /\ \A w \in Appliers : applies[w].pc = "get" => ENABLED ApplyGet(w))
    /\ [][PoolGrows]_vars

C17_Witness ==
    /\ Len(desCiphers) = 2
    /\ \E w \in Appliers, v \in Appliers :
         /\ applies[w].pc = "put"
         /\ applies[v].pc = "encrypt"
         /\ applies[w].roundKey # applies[v].roundKey

\* the workers still running can all send: the errors in the channel are
\* those of workers that are done, one each, and the channel has room for
\* one from every launched worker
SendsNeverBlock ==
    parPC = "running" =>
        /\ Cardinality(DOMAIN workers) <= errorsCapacity(parCall.numThreads)
        /\ \A t \in DOMAIN workers :
             Cardinality({k \in 1..Len(errors) : errors[k].worker = t})
                 <= IF workers[t].pc = "done" THEN 1 ELSE 0
        /\ \A k \in 1..Len(errors) : errors[k].worker \in DOMAIN workers

\* a call over at least one block returns a result or an error
ReturnsResultOrError ==
    (parPC = "returned" /\ Cardinality(CallBlocks) >= 1) =>
        \/ parRes.raw.err = "" /\ Len(parRes.raw.out) = Len(parCall.data)
        \/ parRes.raw.err = "worker failed" /\ parRes.raw.out = <<>>

\* C18: every parallel ECB or CTR call terminates: each worker sends at most
\* one error and the error channel's capacity is at least the number of
\* launched workers, so no worker ever blocks on the send, the wait-group
\* join always returns, and the call returns either a result or an error,
\* for every numBlocks >= 1 and every combination of failing blocks.
C18_ParallelTerminates ==
    /\ [](SendsNeverBlock /\ ReturnsResultOrError)
    /\ (parPC = "running" ~> parPC = "returned")

C18_Witness ==
    /\ parPC = "returned"
    /\ Cardinality(DOMAIN workers) = 2
    /\ Len(errors) = 2
    /\ parRes.raw.err = "worker failed"

\* a step in which Encrypt or Decrypt returns leaves the four stored settings
\* of the context as they were
SettingsKept ==
    lastOp'.op \in {"enc", "enc2", "dec"} =>
        /\ context'.iv = context.iv
        /\ context'.key = context.key
        /\ context'.mode = context.mode
        /\ context'.paddingMode = context.paddingMode

\* the second of two Encrypt calls in a row returned what the first returned
SameAgain == lastOp.res = lastOp.prev

\* C19: Encrypt and Decrypt, sequential or parallel, in every mode, leave the
\* stored IV, key, mode and padding of the context unchanged, and two
\* successive Encrypt calls on one context with one plaintext return the same
\* result whenever neither the mode nor the padding draws random bytes.
C19_ContextUntouched ==
    /\ [][SettingsKept]_vars
    /\ [](lastOp.op = "enc2" /\ ~usesRandom(context) => SameAgain)

\* two sequential CTR encryptions of more than one block that succeeded
C19_Witness ==
    /\ lastOp.op = "enc2"
    /\ context.mode = CipherModeCTR
    /\ context.paddingMode = PaddingModePKCS7
    /\ ~lastOp.par
    /\ Len(lastOp.in) > BlockSize
    /\ lastOp.res.err = ""
    /\ Len(lastOp.res.out) = 2 * BlockSize

\* counter + k as big-endian unsigned integers of 8 * Len(counter) bits: the
\* sum modulo 2^(8 * Len(counter)), added byte by byte from the last one
RECURSIVE AddBigEndian(_, _)
AddBigEndian(counter, k) ==
    IF Len(counter) = 0 THEN <<>>
    ELSE LET sum == counter[Len(counter)] + k
         IN  Append(AddBigEndian(SubSeq(counter, 1, Len(counter) - 1), sum \div ByteMod),
                    sum % ByteMod)

\* counters of 0 .. BlockSize + 1 bytes, the all-0xFF ones among them
Counters == {GenData(g, n) : g \in Gens, n \in 0..(BlockSize + 1)}

\* incrementCounter adds 1 modulo 2^(8 * len)
IncrementLaw == \A counter \in Counters : incrementCounter(counter) = AddBigEndian(counter, 1)

\* a CTR Encrypt with a deterministic padding that returned a ciphertext
\* returned, block by block, the padded plaintext masked with E(IV + i)
MaskLaw ==
    (/\ lastOp.op = "enc"
     /\ context.mode = CipherModeCTR
     /\ context.paddingMode \in PaddingModes \ {PaddingModeISO10126}
     /\ lastOp.res.err = "")
    =>
    LET bs == context.blockSize
        padded == applyPadding(lastOp.in, bs, context.paddingMode, 0).out
    IN  \A i \in 0..((Len(padded) \div bs) - 1) :
           Chunk(lastOp.res.out, i, bs) =
               xorBlocks(AtWork(context).cipher.EncryptBlock[AddBigEndian(context.iv, i)].out,
                         Chunk(padded, i, bs))

\* C20: incrementCounter adds 1 to the counter read as a big-endian unsigned
\* integer of 8*len bits, modulo 2^(8*len) (all 0xFF becomes all zeros), and
\* CTR block i is masked with E(IV + i mod 2^(8*blockSize)), in the
\* sequential loop and in the parallel workers alike.
C20_CounterMask == IncrementLaw /\ MaskLaw

\* the halves <<L_r, R_r>> of block x after r rounds of the driver d:
\* L_0 || R_0 = x, L_{r+1} = R_r, R_{r+1} = L_r xor F(R_r, K_r)
RECURSIVE HalvesAfter(_, _, _)
HalvesAfter(d, x, r) ==
    IF r = 0
      THEN <<SubSeq(x, 1, Len(x) \div 2), SubSeq(x, (Len(x) \div 2) + 1, Len(x))>>
      ELSE Only({Only({<<before[2], [j \in 1..Len(F) |-> Xor8(before[1][j], F[j])] \o <<>> >> :
                       F \in {StubApply(d.which, before[2], d.feistel.roundKeys[r]).out \o <<>>}}) :
                 before \in {HalvesAfter(d, x, r - 1)}})

\* C21: EncryptBlock on a block L_0 || R_0 of blockSize bytes computes
\* L_{r+1} = R_r and R_{r+1} = L_r xor F(R_r, K_r) for r = 0..rounds-1 and
\* returns L_rounds || R_rounds, the halves not swapped after the last round.
C21_FeistelRounds ==
    (blockOp.op = "enc" /\ keyHistory = "ok" /\ Len(blockOp.in) = instance.feistel.blockSize)
    =>
    /\ blockOp.res.err = ""
    /\ LET last == HalvesAfter(instance, blockOp.in, instance.feistel.roundsCount)
       IN  blockOp.res.out = last[1] \o last[2]

\* three rounds on a block of four bytes whose two halves end up different
C21_Witness ==
    /\ blockOp.op = "enc"
    /\ keyHistory = "ok"
    /\ instance.which = "square"
    /\ instance.feistel.roundsCount = 3
    /\ instance.feistel.blockSize = 4
    /\ blockOp.res.err = ""
    /\ SubSeq(blockOp.res.out, 1, 2) # SubSeq(blockOp.res.out, 3, 4)

\* a block of the driver's size is encrypted and decrypted without error
\* once SetKey has returned nil
BlockAccepted ==
    (/\ blockOp.op \in {"enc", "dec"}
     /\ keyHistory = "ok"
     /\ Len(blockOp.in) = instance.feistel.blockSize)
    => blockOp.res.err = ""

\* C22: for every round count, key schedule and deterministic round function
\* with an output of half-block length, invertible or not,
\* DecryptBlock(EncryptBlock(x)) = x and EncryptBlock(DecryptBlock(x)) = x for
\* every block x of blockSize bytes.
C22_FeistelInverse ==
    /\ BlockAccepted
    /\ blockOp.op \in {"encdec", "decenc"} =>
         /\ blockOp.res.err = ""
         /\ blockOp.res.out = blockOp.src

\* a block that three rounds of the non-invertible round function changed
\* and DecryptBlock gave back
C22_Witness ==
    /\ blockOp.op = "encdec"
    /\ instance.which = "square"
    /\ instance.feistel.roundsCount = 3
    /\ instance.feistel.blockSize = 4
    /\ blockOp.in # blockOp.src
    /\ blockOp.res.out = blockOp.src

\* the bits of a byte string, the top bit of the first byte first
BitsOf(bytes) ==
    [i \in 1..(8 * Len(bytes)) |-> BitAt(bytes, (i - 1) \div 8, 7 - ((i - 1) % 8))]

\* the bytes of a bit string of 8n bits
BytesOf(bits) ==
    [b \in 1..(Len(bits) \div 8) |->
        bits[8 * b - 7] * 128 + bits[8 * b - 6] * 64 + bits[8 * b - 5] * 32
        + bits[8 * b - 4] * 16 + bits[8 * b - 3] * 8 + bits[8 * b - 2] * 4
        + bits[8 * b - 1] * 2 + bits[8 * b]]

\* a bit string rotated left by s places
RotateLeft(bits, s) == [i \in 1..Len(bits) |-> bits[((i - 1 + s) % Len(bits)) + 1]]

\* the sum of the first i entries of SHIFT_SCHEDULE
RECURSIVE CumulativeShift(_)
CumulativeShift(i) == IF i = 0 THEN 0 ELSE CumulativeShift(i - 1) + SHIFT_SCHEDULE[i]

\* K_i = PC2(rotl28(C_0, s_i) || rotl28(D_0, s_i)) as six bytes, C_0 and D_0
\* the halves of PC1(key)
StandardRoundKey(key, i) ==
    Only({BytesOf([j \in 1..48 |-> cd[PC2[j]]] \o <<>>) :
          cd \in {Only({RotateLeft(SubSeq(permuted, 1, 28), CumulativeShift(i))
                        \o RotateLeft(SubSeq(permuted, 29, 56), CumulativeShift(i)) :
                        permuted \in {[j \in 1..56 |-> BitsOf(key)[PC1[j]]] \o <<>>}})}})

\* C23: GenerateRoundKeys returns 16 round keys of 6 bytes with
\* K_i = PC2(rotl28(C_0, s_i) || rotl28(D_0, s_i)), s_i the cumulative
\* SHIFT_SCHEDULE and C_0, D_0 the 28-bit halves of PC1(key); every shift is
\* a rotation within 28 bits that loses no bit of a half.
C23_DESKeySchedule ==
    (libCall.fn = "GenerateRoundKeys" /\ Len(libCall.key) = 8) =>
        /\ libCall.ret.err = ""
        /\ Len(libCall.ret.out) = 16
        /\ \A i \in 1..16 : libCall.ret.out[i] = StandardRoundKey(libCall.key, i)

\* Rcon[1..30]: the powers x^(j-1) in GF(2^8) modulo x^8 + x^4 + x^3 + x + 1
Rcon == <<1, 2, 4, 8, 16, 32, 64, 128, 27, 54, 108, 216, 171, 77, 154,
          47, 94, 188, 99, 198, 151, 53, 106, 212, 179, 125, 250, 239,
          197, 145>>

\* T(W[i-1]) of the AES key expansion for word i of a key of nk words
ExpansionT(rc, prev, i, nk) ==
    LET sub(w) == <<rc.sBox[w[1] + 1], rc.sBox[w[2] + 1], rc.sBox[w[3] + 1],
                    rc.sBox[w[4] + 1]>>
        rotated == sub(<<prev[2], prev[3], prev[4], prev[1]>>)
    IN  IF i % nk = 0
          THEN <<Xor8(rotated[1], Rcon[i \div nk]), rotated[2], rotated[3], rotated[4]>>
        ELSE IF nk > 6 /\ i % nk = 4 THEN sub(prev)
        ELSE prev

\* the bytes W of the first words of the AES key expansion followed by the
\* bytes of the next count words
RECURSIVE MoreWords(_, _, _, _)
MoreWords(rc, W, nk, count) ==
    IF count = 0 THEN W
    ELSE Only({MoreWords(rc, next, nk, count - 1) :
               next \in {Only({W \o [j \in 1..4 |-> Xor8(W[4 * (i - nk) + j], t[j])] :
                               i \in {Len(W) \div 4},
                               t \in {ExpansionT(rc, SubSeq(W, 4 * (Len(W) \div 4) - 3,
                                                            4 * (Len(W) \div 4)),
                                                 Len(W) \div 4, nk)}})}})

\* the bytes of at least the words W[0 .. total) of the AES key expansion,
\* from the bytes W of its first words, four words at a time
RECURSIVE ExpandedKey(_, _, _, _)
ExpandedKey(rc, W, nk, total) ==
    IF Len(W) >= 4 * total THEN W
    ELSE Only({ExpandedKey(rc, next, nk, total) : next \in {MoreWords(rc, W, nk, 4)}})

\* the round keys of the AES key expansion for the instance and its key
StandardRoundKeys(rc, key) ==
    Only({[r \in 1..(rc.rounds + 1) |->
             SubSeq(W, (r - 1) * rc.blockSize + 1, r * rc.blockSize)] :
          W \in {ExpandedKey(rc, key, rc.keySize \div 4,
                             (rc.blockSize \div 4) * (rc.rounds + 1))}})

\* AES-128 of the all-zero block under the all-zero key (FIPS 197)
ZeroVector == <<102, 233, 75, 212, 239, 138, 44, 59, 136, 76, 250, 89, 202, 52, 43, 46>>

\* C24: the Rijndael key schedule yields rounds+1 round keys of blockSize
\* bytes that are the AES key expansion over 32-bit words, W[i] = W[i-Nk]
\* xor T(W[i-1]); hence Rijndael(16,16,0x1B) under the all-zero key encrypts
\* the all-zero block to 66E94BD4EF8A2C3B884CFA59CA342B2E.
C24_RijndaelKeyExpansion ==
    /\ (blockOp.op = "setkey" /\ blockOp.res.err = "") =>
         instance.roundKeys = StandardRoundKeys(instance, blockOp.in)
    /\ (/\ blockOp.op = "enc"
        /\ instance.blockSize = 16 /\ instance.keySize = 16 /\ instance.modulus = 27
        /\ Len(instance.roundKeys) > 0
        /\ instance.roundKeys[1] = GenData(0, 16)
        /\ blockOp.in = GenData(0, 16))
       => blockOp.res = Ok(ZeroVector)

\* the standard ShiftRows of a 4x4 state stored by columns: row r is rotated
\* left by r columns; bytes past the first sixteen stay
StandardShiftRows(state) ==
    [k \in 1..Len(state) |->
        IF k > 16 THEN state[k]
        ELSE LET r == (k - 1) % 4
                 c == (k - 1) \div 4
             IN  state[4 * ((c + r) % 4) + r + 1]]

\* C25: for block sizes 24 and 32 ShiftRows applies the standard 16-byte row
\* shifts (by 0, 1, 2, 3 bytes) to the first 16 bytes of the state and leaves
\* the bytes from 16 on unchanged, and InvShiftRows undoes exactly that; for
\* block size 16 it is the standard AES ShiftRows.
C25_ShiftRows ==
    /\ blockOp.op = "shift" => blockOp.res.out = StandardShiftRows(blockOp.in)
    /\ blockOp.op = "unshift" => blockOp.res.out = blockOp.src

\* the sixteen round keys K_1 .. K_16 of the fixed key
FixedRoundKeys == [i \in 1..16 |-> StandardRoundKey(FIXED_KEY, i)] \o <<>>

\* the DES cipher holding the given round keys
DESWith(roundKeys) ==
    [NewDESCipher EXCEPT !.currentKey = FIXED_KEY,
                         !.feistel.currentKey = FIXED_KEY,
                         !.feistel.roundKeys = roundKeys]

\* block r mod numBlocks of the master key, every byte XORed with r + 1
MaskedKeyBlock(key, r) ==
    [j \in 1..8 |-> Xor8(key[8 * (r % (Len(key) \div 8)) + j], r + 1)]

\* C26: DEAL has 6 rounds for keys of 16 and 24 bytes and 8 for keys of 32
\* bytes; GenerateRoundKeys returns that many subkeys of 8 bytes, subkey r
\* being the DES encryption under 0123456789ABCDEF of key block r mod
\* numBlocks with every byte XORed with r+1; other key lengths are rejected.
C26_DEALSubkeys ==
    /\ libCall.fn = "NewDEALCipher" =>
         /\ (libCall.ret.err = "") = (libCall.keyLength \in {16, 24, 32})
         /\ libCall.ret.err = "" =>
              libCall.ret.out.feistel.roundsCount = IF libCall.keyLength = 32 THEN 8 ELSE 6
    /\ libCall.fn = "GenerateRoundKeys" =>
         IF Len(libCall.key) # libCall.keyLength THEN libCall.ret.err # ""
         ELSE /\ libCall.ret.err = ""
              /\ Len(libCall.ret.out) = libCall.roundsCount
              /\ \A r \in 0..(libCall.roundsCount - 1) :
                   libCall.ret.out[r + 1] =
                       DESEncryptBlock(DESWith(FixedRoundKeys),
                                       MaskedKeyBlock(libCall.key, r)).out

\* a SetKey call of the driver that returned an error left the driver as the
\* call found it
FailedSetKeyKeeps ==
    (blockOp.op = "setkey" /\ blockOp.res.err # "") => instance.feistel = blockOp.before

\* round keys, once there are any, suffice for every round
RoundKeysSuffice ==
    Len(instance.feistel.roundKeys) > 0 =>
        Len(instance.feistel.roundKeys) >= instance.feistel.roundsCount

\* no block method indexes past the round-key array
NoIndexFault ==
    blockOp.op \in {"enc", "dec", "encdec", "decenc"} => blockOp.res.err # "panic"

\* C27: a SetKey call that returns an error leaves the object as before the
\* call, FeistelNetwork.currentKey and roundKeys unchanged; in every reachable
\* state a non-empty roundKeys has at least roundsCount entries, so
\* EncryptBlock and DecryptBlock never index past it after a failed SetKey.
C27_FailedSetKey == FailedSetKeyKeeps /\ RoundKeysSuffice /\ NoIndexFault

\* C28: Decrypt of an empty, non-nil ciphertext returns an empty plaintext
\* and no error, without a run-time fault, in every mode, sequential or
\* parallel.
C28_EmptyCiphertext ==
    (/\ lastOp.op = "dec"
     /\ lastOp.in = <<>>
     /\ context.mode \in CipherModes
     /\ context.paddingMode \in PaddingModes)
    => lastOp.res = Ok(<<>>)

\* the keys that differ from key in exactly the byte at one position
OneByteChanged(key) ==
    {[key EXCEPT ![i] = (@ + 1) % ByteMod] : i \in 1..Len(key)}

\* C29: every byte of the Rijndael master key influences the schedule: after
\* a successful SetKey, for every pair of sizes, a key that differs from the
\* one set in one byte produces different round keys.
C29_KeyInfluence ==
    (blockOp.op = "setkey" /\ blockOp.res.err = "")
    => \A other \in OneByteChanged(blockOp.in) :
           RijndaelGenerateRoundKeys(instance, other).out # instance.roundKeys

IsPrime(p) == p > 1 /\ \A d \in 2..(p - 1) : p % d # 0

\* the Legendre symbol of a over the odd prime p, by its definition
LegendreOf(a, p) ==
    IF a % p = 0 THEN 0
    ELSE IF \E x \in 1..(p - 1) : (x * x) % p = a % p THEN 1
    ELSE 0 - 1

RECURSIVE JacobiOf(_, _)
\* the Jacobi symbol of a over the odd n > 0: the product of the Legendre
\* symbols over the prime factors of n
JacobiOf(a, n) ==
    IF n = 1 THEN 1
    ELSE Only({LegendreOf(a, p) * JacobiOf(a, n \div p) :
               p \in {CHOOSE q \in 2..n : n % q = 0 /\ IsPrime(q)}})

\* JacobiSymbol returns the Jacobi symbol
JacobiSymbolRight ==
    (/\ libCall.fn = "JacobiSymbol"
     /\ libCall.n > 0
     /\ libCall.n % 2 = 1
     /\ libCall.a >= 0)
    => libCall.ret = JacobiOf(libCall.a, libCall.n)

\* BigJacobiSymbol returns what JacobiSymbol returns, the Jacobi symbol
BigJacobiSymbolRight ==
    (/\ libCall.fn = "BigJacobiSymbol"
     /\ libCall.n > 0
     /\ libCall.n % 2 = 1
     /\ libCall.a >= 0)
    => /\ libCall.ret = JacobiSymbol(libCall.a, libCall.n)
       /\ libCall.ret = JacobiOf(libCall.a, libCall.n)

\* the iteration accepts every base coprime to a prime n
PrimeAccepted ==
    (/\ libCall.fn = "testIteration"
     /\ IsPrime(libCall.n)
     /\ BigGCD(libCall.a, libCall.n) = 1)
    => libCall.accepted

\* C30: BigJacobiSymbol(a, n) equals JacobiSymbol(a, n), the Jacobi symbol
\* (a/n), for every odd n > 0 and every a >= 0, even ones included, so the
\* Solovay-Strassen iteration accepts every base coprime to a prime n.
C30_JacobiAgree == JacobiSymbolRight /\ BigJacobiSymbolRight /\ PrimeAccepted

====
